---- MODULE Spec2Model ----
(***************************************************************************)
(* TwitchEventSubReceiver (packages/twitch-eventsub/src/index.ts): the     *)
(* session state machine that owns one WebSocket, its reconnect/backoff    *)
(* policy and its keepalive monitor.                                       *)
(*                                                                         *)
(* JavaScript runs every callback to completion, so each handler (an API   *)
(* call, a socket event, a timer callback) is one atomic action.  The      *)
(* assignments a handler makes to connectionState are recorded, in order,  *)
(* in stateTrace, so that intermediate values are not lost.                *)
(***************************************************************************)
EXTENDS Integers, Sequences, FiniteSets, TLC

(* ------------------------------ bounds --------------------------------- *)
\* sockets the receiver may create in one behaviour
MaxSockets == 4
\* reconnect timers (setTimeout handles) that may be pending at once
MaxTimers == 2
\* session_reconnect grace timers that may be pending at once
MaxGraceTimers == 1
\* clock steps a timed behaviour may take
MaxTicks == 16
\* notification frames dispatched in one behaviour
MaxFrames == 2
\* updateShardTransport() calls that may be pending at once
MaxShardUpdates == 1
\* options.maxReconnectAttempts of the receiver under test
maxReconnectAttempts == 2
\* options.maxMissedKeepalives of the receiver under test
maxMissedKeepalives == 2

(* ----------------------------- constants ------------------------------- *)
NoSocket == 0
NoUrl == "none"
NoSession == "none"
\* session.id values a welcome frame may carry
SessionIds == {"session"}
\* this.wsUrl, the configured URL
wsUrl == "wsUrl"
\* reconnect_url values a server frame may carry
ReconnectUrls == {"reconnectUrl"}
\* keepalive_timeout_seconds values a server frame may carry (0: absent)
KeepaliveTimeouts == {0, 10, 30}
\* initial value of keepaliveInterval
DefaultKeepaliveInterval == 10
\* close codes named by getCloseReason, plus 1005/1006 (no status / abnormal)
CloseCodes == {1000, 1005, 1006, 4000, 4001, 4002, 4003, 4004, 4005, 4006, 4007}
\* options.baseReconnectDelay ?? 1000, options.maxReconnectDelay ?? 30000
DefaultBaseReconnectDelay == 1000
DefaultMaxReconnectDelay == 30000
\* no close event since a socket last opened
NoClose == 0
NoDelay == [attempt |-> -1, jitter |-> 0, delay |-> 0]
ConnectionStates == {"disconnected", "connecting", "connected", "reconnecting"}

(* ------------------------- event payloads ------------------------------ *)
\* values a payload field can hold: missing (or another falsy non-string), the
\* empty string, a truthy value that is not a string, or a broadcaster id
Absent == "<absent>"
EmptyString == ""
NotAString == "<not a string>"
BroadcasterIds == {"42", "7"}
FieldValues == {Absent, EmptyString, NotAString} \cup BroadcasterIds
ItemValues == {Absent, NotAString} \cup BroadcasterIds

\* typeof v === "string"
IsString(v) == v \notin {Absent, NotAString}

\* v is truthy
Truthy(v) == v \notin {Absent, EmptyString}

\* longest nested list of a payload
MaxItems == 2

\* the elements of event.data that the code can read
Items == [to_broadcaster_user_id : ItemValues, broadcaster_user_id : ItemValues]

ItemLists == UNION {[1..n -> Items] : n \in 0..MaxItems}

\* event.data: a list, or anything that is not a list
NestedData ==
    {[isArray |-> FALSE, items |-> <<>>]} \cup {[isArray |-> TRUE, items |-> l] : l \in ItemLists}

\* an event payload: the fields the registry reads, whether the rest of it
\* conforms to the schema of its type, and whether it carries keys unknown to it
Events ==
    [to_broadcaster_user_id : FieldValues, broadcaster_user_id : FieldValues,
     data : NestedData, conforms : BOOLEAN, unknownKeys : BOOLEAN]

\* null, as returned by extractReceivingBroadcasterId
NoTenant == "<null>"

\* no payload has been handed over / no result has been returned yet
NoEvent ==
    [to_broadcaster_user_id |-> Absent, broadcaster_user_id |-> Absent,
     data |-> [isArray |-> FALSE, items |-> <<>>], conforms |-> FALSE, unknownKeys |-> FALSE]
Unresolved == "<unresolved>"

(* ----------------------------- token store ----------------------------- *)
\* expires_in of every token, in seconds
TokenLifetime == 1

(* --------------------------- texts and bytes --------------------------- *)
\* A string is a sequence of UTF-16 code units and a buffer a sequence of
\* bytes, both written as numbers.
REPLACEMENT_CHARACTER == 65533

\* the UTF-8 bytes of a code unit that is not part of a surrogate pair; a lone
\* surrogate is written as U+FFFD
EncodeCodeUnit(c) ==
    IF c < 128 THEN <<c>>
    ELSE IF c < 2048 THEN <<192 + (c \div 64), 128 + (c % 64)>>
    ELSE IF c >= 55296 /\ c <= 57343 THEN <<239, 191, 189>>
    ELSE <<224 + (c \div 4096), 128 + ((c \div 64) % 64), 128 + (c % 64)>>

\* the UTF-8 bytes of a string, as Buffer.from(string) and hmac.update(string)
\* produce them
RECURSIVE utf8Encode(_)
utf8Encode(s) ==
    IF s = <<>> THEN <<>>
    ELSE IF /\ Len(s) > 1
            /\ s[1] >= 55296 /\ s[1] <= 56319
            /\ s[2] >= 56320 /\ s[2] <= 57343
    THEN LET cp == 65536 + ((s[1] - 55296) * 1024) + (s[2] - 56320)
         IN  <<240 + (cp \div 262144), 128 + ((cp \div 4096) % 64),
               128 + ((cp \div 64) % 64), 128 + (cp % 64)>> \o utf8Encode(Tail(Tail(s)))
    ELSE EncodeCodeUnit(s[1]) \o utf8Encode(Tail(s))

\* the code units of a decoded code point
CodeUnits(cp) ==
    IF cp < 65536 THEN <<cp>>
    ELSE <<55296 + ((cp - 65536) \div 1024), 56320 + ((cp - 65536) % 1024)>>

\* the UTF-8 decoder of TextDecoder and Request.text(): bytes that are not
\* well-formed UTF-8 become U+FFFD. needed, seen, cp, lower and upper are the
\* decoder's state.
RECURSIVE Decode(_, _, _, _, _, _)
Decode(bytes, needed, seen, cp, lower, upper) ==
    IF bytes = <<>>
    THEN IF needed # 0 THEN <<REPLACEMENT_CHARACTER>> ELSE <<>>
    ELSE LET b == Head(bytes)
             rest == Tail(bytes)
         IN  IF needed = 0
             THEN IF b <= 127 THEN <<b>> \o Decode(rest, 0, 0, 0, 128, 191)
                  ELSE IF b >= 194 /\ b <= 223
                  THEN Decode(rest, 1, 0, b % 32, 128, 191)
                  ELSE IF b >= 224 /\ b <= 239
                  THEN Decode(rest, 2, 0, b % 16,
                              IF b = 224 THEN 160 ELSE 128, IF b = 237 THEN 159 ELSE 191)
                  ELSE IF b >= 240 /\ b <= 244
                  THEN Decode(rest, 3, 0, b % 8,
                              IF b = 240 THEN 144 ELSE 128, IF b = 244 THEN 143 ELSE 191)
                  ELSE <<REPLACEMENT_CHARACTER>> \o Decode(rest, 0, 0, 0, 128, 191)
             ELSE IF b < lower \/ b > upper
             THEN <<REPLACEMENT_CHARACTER>> \o Decode(bytes, 0, 0, 0, 128, 191)
             ELSE IF seen + 1 = needed
             THEN CodeUnits((cp * 64) + (b % 64)) \o Decode(rest, 0, 0, 0, 128, 191)
             ELSE Decode(rest, needed, seen + 1, (cp * 64) + (b % 64), 128, 191)

\* new TextDecoder().decode(bytes), and Request.text(): a leading byte order
\* mark is dropped
utf8Decode(bytes) ==
    IF Len(bytes) >= 3 /\ SubSeq(bytes, 1, 3) = <<239, 187, 191>>
    THEN Decode(SubSeq(bytes, 4, Len(bytes)), 0, 0, 0, 128, 191)
    ELSE Decode(bytes, 0, 0, 0, 128, 191)

(* -------------------------- signature verifier ------------------------- *)
\* env.TWITCH_WEBHOOK_SECRET, and a secret that is not it
WebhookSecret == "TWITCH_WEBHOOK_SECRET"
OtherSecret == "another secret"

HMAC_PREFIX == "sha256="

\* a header that is null or empty
NoHeader == <<>>

\* the two kinds of body that buildHmacMessage accepts
StringBody(chars) == [type |-> "string", data |-> chars]
ArrayBufferBody(bytes) == [type |-> "ArrayBuffer", data |-> bytes]

\* buildHmacMessage(messageId, timestamp, body)
buildHmacMessage(messageId, timestamp, body) ==
    LET bodyString == IF body.type = "string" THEN body.data ELSE utf8Decode(body.data)
    IN  messageId \o timestamp \o bodyString

\* createHmac("sha256", secret).update(message).digest("hex"): the digest of
\* the UTF-8 bytes of message; a digest stands for the one key and the one
\* byte sequence it was computed from
generateHmac(secret, message) == [key |-> secret, message |-> utf8Encode(message)]

\* a signature header: a prefix followed by the 64 hexadecimal digits of a
\* digest; padded tells that further bytes follow them
NoSignature == [prefix |-> "", hmac |-> [key |-> "", message |-> <<>>], padded |-> FALSE]

\* the signature header that a sender holding `secret` computes with
\* buildHmacMessage and generateHmac
Sign(secret, messageId, timestamp, body) ==
    [prefix |-> HMAC_PREFIX,
     hmac |-> generateHmac(secret, buildHmacMessage(messageId, timestamp, body)),
     padded |-> FALSE]

\* Buffer.from(signature).length
ByteLength(signature) ==
    (IF signature.prefix = HMAC_PREFIX THEN 7 ELSE 0)
    + (IF signature = NoSignature THEN 0 ELSE 64)
    + (IF signature.padded THEN 1 ELSE 0)

\* crypto.timingSafeEqual(a, b): throws for buffers of different length
timingSafeEqual(a, b) ==
    IF ByteLength(a) # ByteLength(b)
    THEN [threw |-> TRUE, value |-> FALSE]
    ELSE [threw |-> FALSE, value |-> (a = b)]

\* verifySignature(messageId, timestamp, body, receivedSignature): the error
\* of timingSafeEqual is caught
verifySignature(messageId, timestamp, body, receivedSignature) ==
    LET secret == WebhookSecret
        message == buildHmacMessage(messageId, timestamp, body)
        expectedHmac == generateHmac(secret, message)
        expectedSignature == [prefix |-> HMAC_PREFIX, hmac |-> expectedHmac, padded |-> FALSE]
        compared == timingSafeEqual(expectedSignature, receivedSignature)
    IN  IF compared.threw THEN FALSE ELSE compared.value

VARIABLES
    connectionState,   \* this.connectionState
    reconnectAttempts, \* this.reconnectAttempts
    ws,                \* this.ws: id of the current socket, NoSocket for null
    wsTarget,          \* URL the current socket was constructed with
    wsReadyState,      \* readyState of the current socket
    sessionId,         \* this.sessionId
    reconnectUrl,      \* this.reconnectUrl
    keepaliveTimer,    \* TRUE while a keepalive check is pending
    keepaliveInterval, \* this.keepaliveInterval (seconds)
    missedKeepalives,  \* this.missedKeepalives
    reconnectTimers,   \* pending setTimeout(() => this.reconnect()) callbacks
    graceTimers,       \* sockets whose session_reconnect armed a pending 5s close
    sockets,           \* number of WebSocket objects constructed so far
    lastOp,            \* the handler that ran last
    stateTrace,        \* values it assigned to connectionState, in order
    failedAttempts,    \* reconnect attempts since the last open event / API call
    halt,              \* "disconnect"/"4001" since disconnect()/close 4001, until connect()
    lastClose,         \* code of the last close event; NoClose once a socket has opened since
    announcedUrl,      \* URL of a session_reconnect frame since which no socket has opened
    threw,             \* the handler that ran last threw, or returned a promise that rejected
    attached,          \* sockets that carry the receiver's onopen/onmessage/onerror/onclose
    live,              \* sockets that are open or opening (no close() call, no close event)
    previous,          \* this.ws as the last handler found it, if that handler created a socket
    forcedClose,       \* TRUE once checkKeepalive() has closed the current socket
    now,               \* Date.now() (ms since construction)
    lastKeepaliveTime, \* this.lastKeepaliveTime (ms)
    keepaliveDue,      \* time at which the pending keepalive check is due (ms)
    frames,            \* notification frames dispatched so far
    inflight,          \* notification frames whose processTwitchEvent() has not settled
    shardUpdates,      \* updateShardTransport() calls that have not settled
    baseReconnectDelay, \* options.baseReconnectDelay (ms)
    maxReconnectDelay,  \* options.maxReconnectDelay (ms)
    scheduled,         \* what the last getReconnectDelay() read and returned
    registry,          \* which HandlerRegistry class the process has constructed
    calls,             \* the processTwitchEvent() calls so far, one record per call
    twitchApis,        \* number of TwitchApi objects constructed so far
    unhandledRejections, \* promises that rejected with nobody awaiting or catching them
    event,             \* the payload handed to extractReceivingBroadcasterId
    broadcasterId,     \* what extractReceivingBroadcasterId returned for it
    requests,          \* number of webhook requests received so far
    request,           \* the webhook request received last
    response,          \* the response to it; status 0 while none has been produced
    routed,            \* the middleware called next(): handleTwitchEventSub ran for it
    dispatched,        \* index in calls of the processTwitchEvent call made for it, or 0
    verification,      \* the last verifySignature() call: its arguments and what it returned
    earlier,           \* the verifySignature() call before it, if it had the same headers
    clock,             \* Date.now() as the outbound API client reads it (ms)
    appToken,          \* the row of table twitch_app_token
    channelToken,      \* the access token stored for the broadcaster
    issued,            \* number of tokens id.twitch.tv has issued so far
    outbound,          \* the outbound API calls so far, one record per call
    traffic            \* when the receiver's session got its last frame, and whether its
                       \* frames have come at least once per keepalive window so far

receiverVars == <<connectionState, reconnectAttempts, ws, wsTarget, wsReadyState, sessionId,
          reconnectUrl, keepaliveTimer, keepaliveInterval, missedKeepalives,
          reconnectTimers, graceTimers, sockets, lastOp, stateTrace, failedAttempts, halt,
          lastClose, threw, attached, live, previous, announcedUrl, forcedClose, now, lastKeepaliveTime, keepaliveDue, frames, inflight,
          shardUpdates, baseReconnectDelay, maxReconnectDelay, scheduled>>

\* the handler registry of the process and the tenant resolution it uses
registryVars == <<registry, calls, twitchApis, unhandledRejections>>

tenantVars == <<event, broadcasterId>>

\* the webhook endpoint POST /webhooks/twitch/eventsub
webhookVars == <<requests, request, response, routed, dispatched>>

\* calls of the signature verifier on its own
signatureVars == <<verification, earlier>>

\* the outbound API client and the token store it reads and writes
tokenVars == <<clock, appToken, channelToken, issued, outbound>>

\* the record of the frames of the receiver's session
trafficVars == <<traffic>>

utilVars == <<signatureVars, tokenVars, trafficVars>>

\* everything outside the receiver
serviceVars == <<registryVars, tenantVars, webhookVars, signatureVars, tokenVars>>

appVars == <<registryVars, tenantVars, webhookVars, utilVars>>

vars == <<receiverVars, appVars>>

\* the clock and what the keepalive monitor reads from it
clockVars == <<now, lastKeepaliveTime, keepaliveDue>>

\* the asynchronous calls started by frames and still pending
dispatchVars == <<frames, inflight, shardUpdates>>

delayVars == <<baseReconnectDelay, maxReconnectDelay, scheduled>>

sessionVars == <<sessionId, reconnectUrl, keepaliveInterval, missedKeepalives>>

\* the receiver as constructed, apart from the backoff options
Constructed ==
    /\ connectionState = "disconnected"
    /\ ws = NoSocket
    /\ wsTarget = NoUrl
    /\ wsReadyState = "NONE"
    /\ attached = {}
    /\ live = {}
    /\ previous = NoSocket
    /\ sessionId = NoSession
    /\ reconnectUrl = NoUrl
    /\ keepaliveTimer = FALSE
    /\ keepaliveInterval = DefaultKeepaliveInterval
    /\ missedKeepalives = 0
    /\ reconnectTimers = 0
    /\ graceTimers = {}
    /\ sockets = 0
    /\ lastOp = "init"
    /\ stateTrace = <<>>
    /\ failedAttempts = 0
    /\ halt = "no"
    /\ lastClose = NoClose
    /\ forcedClose = FALSE
    /\ threw = FALSE
    /\ announcedUrl = NoUrl
    /\ now = 0
    /\ lastKeepaliveTime = 0
    /\ keepaliveDue = 0
    /\ frames = 0
    /\ inflight = {}
    /\ shardUpdates = 0
    /\ scheduled = NoDelay

\* no handler registry is under study
NoRegistry ==
    /\ registry = "none"
    /\ calls = <<>>
    /\ twitchApis = 0
    /\ unhandledRejections = 0

\* no tenant resolution is under study
NoResolution ==
    /\ event = NoEvent
    /\ broadcasterId = Unresolved

\* a request header or body field that is missing
NoRequest ==
    [messageId |-> NoHeader, timestamp |-> NoHeader, signature |-> NoSignature,
     messageType |-> Absent,
     body |-> [bytes |-> <<>>, json |-> FALSE, challenge |-> Absent, subscription |-> FALSE,
               subscriptionType |-> "", event |-> NoEvent]]

NoResponse == [status |-> 0, body |-> ""]

\* verifySignature has not been called
NoCall ==
    [called |-> FALSE, messageId |-> NoHeader, timestamp |-> NoHeader,
     body |-> StringBody(<<>>), receivedSignature |-> NoSignature, valid |-> FALSE]

NoVerification ==
    /\ verification = NoCall
    /\ earlier = NoCall

\* the token store as the outbound API client finds it: token 0 for the
\* broadcaster and for the application, the latter saved at time 0
StoredTokens ==
    /\ clock = 0
    /\ appToken = [access_token |-> 0, expires_in |-> TokenLifetime, updated_at |-> 0]
    /\ channelToken = 0
    /\ issued = 0

\* no outbound API call has been made
NoOutbound ==
    /\ StoredTokens
    /\ outbound = <<>>

\* the receiver has no session yet
NoTraffic == traffic = [last |-> 0, steady |-> FALSE]

\* no webhook request has been received
NoWebhook ==
    /\ requests = 0
    /\ request = NoRequest
    /\ response = NoResponse
    /\ routed = FALSE
    /\ dispatched = 0

\* the state after construction with the default backoff options
Init ==
    /\ Constructed
    /\ NoRegistry
    /\ NoResolution
    /\ NoWebhook
    /\ NoVerification
    /\ NoOutbound
    /\ NoTraffic
    /\ reconnectAttempts = 0
    /\ baseReconnectDelay = DefaultBaseReconnectDelay
    /\ maxReconnectDelay = DefaultMaxReconnectDelay

(* ----------------------------- helpers --------------------------------- *)
\* cleanup(): clears the keepalive timer, detaches the handlers of this.ws,
\* closes it and sets this.ws to null.
Cleanup ==
    /\ keepaliveTimer' = FALSE
    /\ forcedClose' = FALSE
    /\ UNCHANGED announcedUrl
    /\ ws' = NoSocket
    /\ wsTarget' = NoUrl
    /\ wsReadyState' = "NONE"
    /\ attached' = attached \ {ws}
    /\ live' = live \ {ws}

\* faulty variant: the socket is replaced without cleanup()
CleanupAndOpen_KeepsPrevious(url) ==
    /\ sockets < MaxSockets
    /\ keepaliveTimer' = FALSE
    /\ forcedClose' = FALSE
    /\ UNCHANGED announcedUrl
    /\ sockets' = sockets + 1
    /\ ws' = sockets + 1
    /\ wsTarget' = url
    /\ wsReadyState' = "CONNECTING"
    /\ attached' = attached \cup {sockets + 1}
    /\ live' = live \cup {sockets + 1}

\* cleanup(); this.ws = new WebSocket(url); setupEventHandlers()
CleanupAndOpen(url) ==
    /\ sockets < MaxSockets
    /\ keepaliveTimer' = FALSE
    /\ forcedClose' = FALSE
    /\ UNCHANGED announcedUrl
    /\ sockets' = sockets + 1
    /\ ws' = sockets + 1
    /\ wsTarget' = url
    /\ wsReadyState' = "CONNECTING"
    /\ attached' = (attached \ {ws}) \cup {sockets + 1}
    /\ live' = (live \ {ws}) \cup {sockets + 1}

\* scheduleReconnect(): setTimeout(() => this.reconnect(), delay)
ScheduleReconnect(pending) ==
    /\ pending < MaxTimers
    /\ reconnectTimers' = pending + 1

(* ------------------------------ connect -------------------------------- *)
\* faulty variant: the early return only covers "connecting"
AlreadyConnected_OnlyConnecting == connectionState = "connecting"

\* the early return of connect()
AlreadyConnected == connectionState \in {"connecting", "connected"}

\* connect(), called by the application; throws: new WebSocket(...) throws
Connect(throws) ==
    /\ UNCHANGED <<delayVars, appVars, clockVars, dispatchVars, lastClose>>
    /\ lastOp' = "connect"
    /\ threw' = (~AlreadyConnected /\ throws)
    /\ previous' = IF ~AlreadyConnected /\ ~throws THEN ws ELSE NoSocket
    /\ halt' = "no"
    /\ UNCHANGED <<sessionVars, reconnectTimers, graceTimers>>
    /\ IF AlreadyConnected
       THEN /\ stateTrace' = <<>>
            /\ UNCHANGED <<connectionState, reconnectAttempts, ws, wsTarget, wsReadyState, attached, live,
                           keepaliveTimer, sockets, failedAttempts, forcedClose,
                           announcedUrl>>
       ELSE /\ failedAttempts' = 0
            /\ UNCHANGED reconnectAttempts
            /\ IF throws
               THEN /\ connectionState' = "disconnected"
                    /\ stateTrace' = <<"connecting", "disconnected">>
                    /\ Cleanup
                    /\ UNCHANGED sockets
               ELSE /\ connectionState' = "connecting"
                    /\ stateTrace' = <<"connecting">>
                    /\ CleanupAndOpen(wsUrl)

(* ----------------------------- disconnect ------------------------------ *)
\* faulty variant: disconnect() that does not raise the attempt counter
Disconnect_KeepsAttempts ==
    /\ UNCHANGED <<delayVars, appVars, clockVars, dispatchVars>>
    /\ lastClose' = NoClose
    /\ lastOp' = "disconnect"
    /\ threw' = FALSE
    /\ previous' = NoSocket
    /\ halt' = "disconnect"
    /\ connectionState' = "disconnected"
    /\ stateTrace' = <<"disconnected">>
    /\ failedAttempts' = 0
    /\ Cleanup
    /\ UNCHANGED <<sessionVars, reconnectTimers, graceTimers, sockets, reconnectAttempts>>

Disconnect ==
    /\ UNCHANGED <<delayVars, appVars, clockVars, dispatchVars>>
    /\ lastClose' = NoClose
    /\ lastOp' = "disconnect"
    /\ threw' = FALSE
    /\ previous' = NoSocket
    /\ halt' = "disconnect"
    /\ connectionState' = "disconnected"
    /\ stateTrace' = <<"disconnected">>
    /\ reconnectAttempts' = maxReconnectAttempts
    /\ failedAttempts' = 0
    /\ Cleanup
    /\ UNCHANGED <<sessionVars, reconnectTimers, graceTimers, sockets>>

(* ----------------------------- reconnect ------------------------------- *)
\* faulty variant: the guard only covers "reconnecting"
ReconnectInProgress_OnlyReconnecting == connectionState = "reconnecting"

\* the duplicate-reconnect guard of reconnect()
ReconnectInProgress == connectionState \in {"connecting", "reconnecting"}

\* the retry ceiling of reconnect()
AttemptsExhausted == reconnectAttempts >= maxReconnectAttempts

\* A pending reconnect timer fires and runs reconnect().  With a reconnect URL
\* the socket is created in place; without one reconnect() awaits connect(),
\* which runs synchronously to its end.  throws: new WebSocket(...) throws.
Reconnect(throws) ==
    /\ UNCHANGED <<delayVars, appVars, clockVars, dispatchVars, lastClose>>
    /\ reconnectTimers > 0
    /\ lastOp' = "reconnect"
    /\ threw' = (~ReconnectInProgress /\ ~AttemptsExhausted /\ reconnectUrl = NoUrl /\ throws)
    /\ previous' = IF ~ReconnectInProgress /\ ~AttemptsExhausted /\ ~throws THEN ws ELSE NoSocket
    /\ UNCHANGED <<sessionVars, graceTimers, halt>>
    /\ IF ReconnectInProgress
       THEN /\ stateTrace' = <<>>
            /\ reconnectTimers' = reconnectTimers - 1
            /\ UNCHANGED <<connectionState, reconnectAttempts, ws, wsTarget, wsReadyState, attached, live,
                           keepaliveTimer, sockets, failedAttempts, forcedClose,
                           announcedUrl>>
       ELSE IF AttemptsExhausted
       THEN /\ connectionState' = "disconnected"
            /\ stateTrace' = <<"disconnected">>
            /\ reconnectTimers' = reconnectTimers - 1
            /\ UNCHANGED <<reconnectAttempts, ws, wsTarget, wsReadyState, attached, live,
                           keepaliveTimer, sockets, failedAttempts, forcedClose,
                           announcedUrl>>
       ELSE /\ failedAttempts' = failedAttempts + 1
            /\ IF reconnectUrl # NoUrl
               THEN IF throws
                    THEN \* catch: scheduleReconnect(), the state stays as assigned
                         /\ connectionState' = "reconnecting"
                         /\ stateTrace' = <<"reconnecting">>
                         /\ reconnectAttempts' = reconnectAttempts + 1
                         /\ Cleanup
                         /\ ScheduleReconnect(reconnectTimers - 1)
                         /\ UNCHANGED sockets
                    ELSE /\ connectionState' = "connected"
                         /\ stateTrace' = <<"reconnecting", "connected">>
                         /\ reconnectAttempts' = 0
                         /\ CleanupAndOpen(reconnectUrl)
                         /\ reconnectTimers' = reconnectTimers - 1
               ELSE \* await this.connect(): its guard sees "reconnecting"
                    /\ reconnectAttempts' = reconnectAttempts + 1
                    /\ reconnectTimers' = reconnectTimers - 1
                    /\ IF throws
                       THEN /\ connectionState' = "disconnected"
                            /\ stateTrace' = <<"reconnecting", "connecting", "disconnected">>
                            /\ Cleanup
                            /\ UNCHANGED sockets
                       ELSE /\ connectionState' = "connecting"
                            /\ stateTrace' = <<"reconnecting", "connecting">>
                            /\ CleanupAndOpen(wsUrl)

(* --------------------------- socket events ----------------------------- *)
\* ws.onopen of the current socket
SocketOpen ==
    /\ UNCHANGED <<delayVars, appVars, clockVars, dispatchVars>>
    /\ lastClose' = NoClose
    /\ ws # NoSocket
    /\ wsReadyState = "CONNECTING"
    /\ lastOp' = "open"
    /\ threw' = FALSE
    /\ previous' = NoSocket
    /\ wsReadyState' = "OPEN"
    /\ UNCHANGED <<attached, live>>
    /\ connectionState' = "connected"
    /\ stateTrace' = <<"connected">>
    /\ reconnectAttempts' = 0
    /\ failedAttempts' = 0
    /\ UNCHANGED <<ws, wsTarget, sessionVars, keepaliveTimer, reconnectTimers,
                   graceTimers, sockets, halt, forcedClose>>
    /\ announcedUrl' = NoUrl

\* close codes a close event may carry, by the socket's readyState: a socket
\* that never opened fails with 1006; an open or closing one may report any.
CodesFor(readyState) == IF readyState = "CONNECTING" THEN {1006} ELSE CloseCodes

\* faulty variant: the default branch schedules nothing for code 4002
ClosePolicy_GivesUpOn4002(code, url) ==
    CASE code \in {4001, 4002} -> FALSE
      [] code \in {4003, 4007} -> TRUE
      [] code = 1000 -> url # NoUrl
      [] OTHER -> TRUE

\* the switch of handleClose: does this close schedule a reconnect?
ClosePolicy(code, url) ==
    CASE code = 4001 -> FALSE
      [] code \in {4003, 4007} -> TRUE
      [] code = 1000 -> url # NoUrl
      [] OTHER -> TRUE

\* faulty variant: only code 4003 drops the reconnect URL
UrlAfterClose_Keeps4007(code, url) == IF code = 4003 THEN NoUrl ELSE url

\* the switch of handleClose: the reconnect URL it leaves
UrlAfterClose(code, url) == IF code \in {4003, 4007} THEN NoUrl ELSE url

\* ws.onclose of the current socket: handleClose(event)
HandleClose(code) ==
    /\ UNCHANGED <<delayVars, appVars, clockVars, dispatchVars>>
    /\ ws # NoSocket
    /\ code \in CodesFor(wsReadyState)
    /\ lastOp' = "close"
    /\ threw' = FALSE
    /\ previous' = NoSocket
    /\ connectionState' = "disconnected"
    /\ stateTrace' = <<"disconnected">>
    /\ Cleanup
    /\ reconnectUrl' = UrlAfterClose(code, reconnectUrl)
    /\ IF ClosePolicy(code, reconnectUrl)
       THEN ScheduleReconnect(reconnectTimers)
       ELSE UNCHANGED reconnectTimers
    /\ halt' = IF code = 4001 THEN "4001" ELSE halt
    /\ lastClose' = code
    /\ UNCHANGED <<reconnectAttempts, sessionId, keepaliveInterval, missedKeepalives,
                   graceTimers, sockets, failedAttempts>>

(* ------------------------------ frames --------------------------------- *)
\* faulty variant: frames are held back while a dispatch is in flight
CanReceive_AwaitsDispatch == ws # NoSocket /\ wsReadyState = "OPEN" /\ inflight = {}

\* ws.onmessage delivers frames of the current socket while it is open
CanReceive == ws # NoSocket /\ wsReadyState = "OPEN"

\* session_welcome carrying session.id, session.reconnect_url and
\* session.keepalive_timeout_seconds (NoSession / NoUrl / 0 when absent)
OnSessionWelcome(id, url, timeout) ==
    /\ UNCHANGED <<delayVars, serviceVars, lastClose>>
    /\ CanReceive
    /\ lastOp' = "session_welcome"
    /\ threw' = FALSE
    /\ previous' = NoSocket
    /\ stateTrace' = <<>>
    /\ sessionId' = id
    /\ reconnectUrl' = url
    /\ IF timeout # 0
       THEN keepaliveTimer' = TRUE /\ keepaliveInterval' = timeout
       ELSE UNCHANGED <<keepaliveTimer, keepaliveInterval>>
    /\ UNCHANGED <<connectionState, reconnectAttempts, ws, wsTarget, wsReadyState, attached, live,
                   missedKeepalives, reconnectTimers, graceTimers, sockets,
                   failedAttempts, halt, forcedClose>>
    /\ announcedUrl' = NoUrl

\* session_welcome where the clock and the shard update are left out of the state
SessionWelcome(id, url, timeout) ==
    /\ OnSessionWelcome(id, url, timeout)
    /\ UNCHANGED <<clockVars, dispatchVars, trafficVars>>

\* faulty variant: a keepalive frame that leaves missedKeepalives alone
OnSessionKeepalive_KeepsMissed(timeout) ==
    /\ UNCHANGED <<delayVars, appVars, lastClose>>
    /\ CanReceive
    /\ lastOp' = "session_keepalive"
    /\ threw' = FALSE
    /\ previous' = NoSocket
    /\ stateTrace' = <<>>
    /\ keepaliveInterval' = IF timeout # 0 THEN timeout ELSE keepaliveInterval
    /\ UNCHANGED <<connectionState, reconnectAttempts, ws, wsTarget, wsReadyState, attached, live,
                   sessionId, reconnectUrl, keepaliveTimer, reconnectTimers,
                   graceTimers, sockets, failedAttempts, halt, missedKeepalives,
                   forcedClose, announcedUrl>>

\* session_keepalive, optionally carrying a new keepalive_timeout_seconds
OnSessionKeepalive(timeout) ==
    /\ UNCHANGED <<delayVars, appVars, lastClose>>
    /\ CanReceive
    /\ lastOp' = "session_keepalive"
    /\ threw' = FALSE
    /\ previous' = NoSocket
    /\ stateTrace' = <<>>
    /\ missedKeepalives' = 0
    /\ keepaliveInterval' = IF timeout # 0 THEN timeout ELSE keepaliveInterval
    /\ UNCHANGED <<connectionState, reconnectAttempts, ws, wsTarget, wsReadyState, attached, live,
                   sessionId, reconnectUrl, keepaliveTimer, reconnectTimers,
                   graceTimers, sockets, failedAttempts, halt, forcedClose, announcedUrl>>

\* session_keepalive where the clock is left out of the state
SessionKeepalive(timeout) ==
    /\ OnSessionKeepalive(timeout)
    /\ UNCHANGED <<clockVars, dispatchVars>>

\* faulty variant: a session_reconnect frame whose URL is not stored
SessionReconnect_DropsUrl(url) ==
    /\ UNCHANGED <<delayVars, appVars, clockVars, dispatchVars, lastClose>>
    /\ CanReceive
    /\ ws \notin graceTimers
    /\ (url # NoUrl => Cardinality(graceTimers) < MaxGraceTimers)
    /\ lastOp' = "session_reconnect"
    /\ threw' = FALSE
    /\ previous' = NoSocket
    /\ stateTrace' = <<>>
    /\ reconnectUrl' = NoUrl
    /\ graceTimers' = IF url # NoUrl THEN graceTimers \cup {ws} ELSE graceTimers
    /\ UNCHANGED <<connectionState, reconnectAttempts, ws, wsTarget, wsReadyState, attached, live,
                   sessionId, keepaliveTimer, keepaliveInterval, missedKeepalives,
                   reconnectTimers, sockets, failedAttempts, halt, forcedClose>>
    /\ announcedUrl' = url

\* session_reconnect: stores the URL and, when there is one, arms a 5 s timer
\* that closes this.ws.  At most one such frame per connection.
SessionReconnect(url) ==
    /\ UNCHANGED <<delayVars, appVars, clockVars, dispatchVars, lastClose>>
    /\ CanReceive
    /\ ws \notin graceTimers
    /\ (url # NoUrl => Cardinality(graceTimers) < MaxGraceTimers)
    /\ lastOp' = "session_reconnect"
    /\ threw' = FALSE
    /\ previous' = NoSocket
    /\ stateTrace' = <<>>
    /\ reconnectUrl' = url
    /\ graceTimers' = IF url # NoUrl THEN graceTimers \cup {ws} ELSE graceTimers
    /\ UNCHANGED <<connectionState, reconnectAttempts, ws, wsTarget, wsReadyState, attached, live,
                   sessionId, keepaliveTimer, keepaliveInterval, missedKeepalives,
                   reconnectTimers, sockets, failedAttempts, halt, forcedClose>>
    /\ announcedUrl' = url

\* WebSocket.close() on a socket in the given readyState
ReadyStateAfterClose(readyState) ==
    IF readyState \in {"CONNECTING", "OPEN"} THEN "CLOSING" ELSE readyState

\* the timer armed by a session_reconnect frame on socket s fires: this.ws?.close()
GraceClose(s) ==
    /\ UNCHANGED <<delayVars, appVars, clockVars, dispatchVars, lastClose>>
    /\ s \in graceTimers
    /\ lastOp' = "grace_close"
    /\ threw' = FALSE
    /\ previous' = NoSocket
    /\ stateTrace' = <<>>
    /\ graceTimers' = graceTimers \ {s}
    /\ wsReadyState' = ReadyStateAfterClose(wsReadyState)
    /\ live' = live \ {ws}
    /\ UNCHANGED attached
    /\ UNCHANGED <<connectionState, reconnectAttempts, ws, wsTarget, sessionVars,
                   keepaliveTimer, reconnectTimers, sockets, failedAttempts, halt,
                   forcedClose, announcedUrl>>

(* ----------------------------- keepalive ------------------------------- *)
\* the lateness test of checkKeepalive (milliseconds)
KeepaliveMissed(timeSinceLastKeepalive) ==
    timeSinceLastKeepalive > keepaliveInterval * 1000 + 2000

\* now - lastKeepaliveTime as a check may observe it: on either side of the limit
ElapsedTimes == {keepaliveInterval * 1000 + 2000, keepaliveInterval * 1000 + 2001}

\* the pending keepalive timer fires: checkKeepalive()
OnCheckKeepalive(timeSinceLastKeepalive) ==
    /\ UNCHANGED <<delayVars, serviceVars, lastClose>>
    /\ keepaliveTimer
    /\ lastOp' = "check_keepalive"
    /\ threw' = FALSE
    /\ previous' = NoSocket
    /\ stateTrace' = <<>>
    /\ IF KeepaliveMissed(timeSinceLastKeepalive)
       THEN /\ missedKeepalives' = missedKeepalives + 1
            /\ IF missedKeepalives + 1 >= maxMissedKeepalives
               THEN /\ wsReadyState' = ReadyStateAfterClose(wsReadyState)
                    /\ live' = live \ {ws}
                    /\ keepaliveTimer' = FALSE
                    /\ forcedClose' = TRUE
               ELSE UNCHANGED <<wsReadyState, live, keepaliveTimer, forcedClose>>
       ELSE UNCHANGED <<missedKeepalives, wsReadyState, live, keepaliveTimer, forcedClose>>
    /\ UNCHANGED attached
    /\ UNCHANGED <<connectionState, reconnectAttempts, ws, wsTarget, sessionId,
                   reconnectUrl, keepaliveInterval, reconnectTimers, graceTimers,
                   sockets, failedAttempts, halt, announcedUrl>>

\* checkKeepalive() where Date.now() is an input
CheckKeepalive(timeSinceLastKeepalive) ==
    /\ OnCheckKeepalive(timeSinceLastKeepalive)
    /\ UNCHANGED <<clockVars, dispatchVars, trafficVars>>

Next ==
    \/ \E throws \in BOOLEAN : Connect(throws)
    \/ Disconnect
    \/ \E throws \in BOOLEAN : Reconnect(throws)
    \/ SocketOpen
    \/ \E code \in CloseCodes : HandleClose(code)
    \/ \E id \in SessionIds \cup {NoSession}, url \in ReconnectUrls \cup {NoUrl}, timeout \in KeepaliveTimeouts :
          SessionWelcome(id, url, timeout)
    \/ \E timeout \in KeepaliveTimeouts : SessionKeepalive(timeout)
    \/ \E url \in ReconnectUrls \cup {NoUrl} : SessionReconnect(url)
    \/ \E s \in graceTimers : GraceClose(s)
    \/ \E t \in ElapsedTimes : CheckKeepalive(t)

Spec == Init /\ [][Next]_vars

(* ----------------------- keepalive under the clock ----------------------- *)
\* the slack of the lateness test, "expectedInterval + 2000" (ms); the clock
\* is observed in steps of this size
KeepaliveSlack == 2000

\* startKeepaliveTimer(): delay of the first check, (timeoutSeconds + 2) * 1000
FirstCheckIn(timeoutSeconds) == (timeoutSeconds + 2) * 1000

\* checkKeepalive(): delay of the next check, this.keepaliveInterval * 1000
NextCheckIn == keepaliveInterval * 1000

\* session_welcome under the clock: this.lastKeepaliveTime = Date.now(), and
\* startKeepaliveTimer() arms the first check
TimedSessionWelcome(id, url, timeout) ==
    /\ OnSessionWelcome(id, url, timeout)
    /\ lastKeepaliveTime' = now
    /\ keepaliveDue' = IF timeout # 0 THEN now + FirstCheckIn(timeout) ELSE keepaliveDue
    /\ UNCHANGED <<now, dispatchVars, trafficVars>>

\* session_keepalive under the clock: this.lastKeepaliveTime = Date.now()
TimedSessionKeepalive(timeout) ==
    /\ OnSessionKeepalive(timeout)
    /\ lastKeepaliveTime' = now
    /\ UNCHANGED <<now, keepaliveDue, dispatchVars>>

\* the keepalive timer fires when due: checkKeepalive() reads Date.now() and,
\* unless it closed the socket, arms the next check
TimedCheckKeepalive ==
    /\ now >= keepaliveDue
    /\ OnCheckKeepalive(now - lastKeepaliveTime)
    /\ keepaliveDue' = IF keepaliveTimer' THEN now + NextCheckIn ELSE keepaliveDue
    /\ UNCHANGED <<now, lastKeepaliveTime, dispatchVars, trafficVars>>

\* time passes while a keepalive check is pending (nothing else reads the
\* clock); a check that is due runs before the clock moves on
Tick ==
    /\ now < MaxTicks * KeepaliveSlack
    /\ keepaliveTimer
    /\ now < keepaliveDue
    /\ now' = now + KeepaliveSlack
    /\ lastOp' = "tick"
    /\ threw' = FALSE
    /\ previous' = NoSocket
    /\ stateTrace' = <<>>
    /\ UNCHANGED <<connectionState, reconnectAttempts, ws, wsTarget, wsReadyState, attached, live,
                   sessionVars, keepaliveTimer, reconnectTimers, graceTimers, sockets,
                   failedAttempts, halt, lastClose, announcedUrl, forcedClose, lastKeepaliveTime,
                   keepaliveDue, dispatchVars, delayVars, appVars>>

\* the application calls connect() once, when the receiver starts
ConnectOnce ==
    /\ sockets = 0
    /\ Connect(FALSE)

\* one receiver under the clock: welcome frames carry a session id and no
\* reconnect URL, and no constructor throws
KeepaliveNext ==
    \/ ConnectOnce
    \/ Reconnect(FALSE)
    \/ SocketOpen
    \/ \E code \in CloseCodes : HandleClose(code)
    \/ \E id \in SessionIds, timeout \in KeepaliveTimeouts :
          TimedSessionWelcome(id, NoUrl, timeout)
    \/ \E timeout \in KeepaliveTimeouts : TimedSessionKeepalive(timeout)
    \/ TimedCheckKeepalive
    \/ Tick

KeepaliveSpec == Init /\ [][KeepaliveNext]_vars

(* --------------------- frames and their async calls ---------------------- *)
\* session_welcome with its shard update: when the frame carries a session id
\* the handler calls updateShardTransport() and awaits it inside try/catch
BindingSessionWelcome(id, url, timeout) ==
    /\ OnSessionWelcome(id, url, timeout)
    /\ IF id # NoSession
       THEN /\ shardUpdates < MaxShardUpdates
            /\ shardUpdates' = shardUpdates + 1
       ELSE UNCHANGED shardUpdates
    /\ UNCHANGED <<clockVars, frames, inflight, trafficVars>>

\* a handler run that only logs: everything but lastOp stays as it is
OnlyLogs(op) ==
    /\ lastOp' = op
    /\ threw' = FALSE
    /\ previous' = NoSocket
    /\ stateTrace' = <<>>
    /\ UNCHANGED <<connectionState, reconnectAttempts, ws, wsTarget, wsReadyState, attached, live,
                   sessionVars, keepaliveTimer, reconnectTimers, graceTimers, sockets,
                   failedAttempts, halt, lastClose, announcedUrl, forcedClose,
                   clockVars, delayVars, appVars>>

\* faulty variant: a rejected shard update closes the socket
ShardUpdateSettles_FailureCloses(ok) ==
    /\ shardUpdates > 0
    /\ shardUpdates' = shardUpdates - 1
    /\ IF ok
       THEN OnlyLogs("shard_update_done")
       ELSE /\ lastOp' = "shard_update_failed"
            /\ threw' = FALSE
            /\ previous' = NoSocket
            /\ stateTrace' = <<>>
            /\ live' = live \ {ws}
            /\ UNCHANGED attached
            /\ wsReadyState' = ReadyStateAfterClose(wsReadyState)
            /\ UNCHANGED <<connectionState, reconnectAttempts, ws, wsTarget,
                           sessionVars, keepaliveTimer, reconnectTimers, graceTimers,
                           sockets, failedAttempts, halt, lastClose, announcedUrl,
                           forcedClose, clockVars, delayVars, appVars>>
    /\ UNCHANGED <<frames, inflight>>

\* the awaited updateShardTransport() settles; a rejection is caught and logged
ShardUpdateSettles(ok) ==
    /\ shardUpdates > 0
    /\ shardUpdates' = shardUpdates - 1
    /\ OnlyLogs(IF ok THEN "shard_update_done" ELSE "shard_update_failed")
    /\ UNCHANGED <<frames, inflight>>

\* a notification frame.  dispatches: it carries subscription_type and event,
\* so processTwitchEvent() is called and awaited; throws: the call throws
\* before returning a promise, which the catch of ws.onmessage logs.
Notification(dispatches, throws) ==
    /\ CanReceive
    /\ IF dispatches
       THEN /\ frames < MaxFrames
            /\ frames' = frames + 1
            /\ inflight' = IF throws THEN inflight ELSE inflight \cup {frames + 1}
            /\ OnlyLogs(IF throws THEN "dispatch_failed" ELSE "notification")
       ELSE /\ ~throws
            /\ OnlyLogs("notification")
            /\ UNCHANGED <<frames, inflight>>
    /\ UNCHANGED shardUpdates

\* faulty variant: a rejected dispatch is not caught and ends the connection
DispatchSettles_RejectionDisconnects(n, ok) ==
    /\ n \in inflight
    /\ inflight' = inflight \ {n}
    /\ IF ok
       THEN OnlyLogs("dispatch_done")
       ELSE /\ lastOp' = "dispatch_failed"
            /\ threw' = FALSE
            /\ previous' = NoSocket
            /\ stateTrace' = <<"disconnected">>
            /\ connectionState' = "disconnected"
            /\ Cleanup
            /\ UNCHANGED <<reconnectAttempts, sessionVars, reconnectTimers, graceTimers,
                           sockets, failedAttempts, halt, lastClose, clockVars,
                           delayVars, appVars>>
    /\ UNCHANGED <<frames, shardUpdates>>

\* the promise of processTwitchEvent() for frame n settles; a rejection is
\* caught by the catch of ws.onmessage and logged
DispatchSettles(n, ok) ==
    /\ n \in inflight
    /\ inflight' = inflight \ {n}
    /\ OnlyLogs(IF ok THEN "dispatch_done" ELSE "dispatch_failed")
    /\ UNCHANGED <<frames, shardUpdates>>

\* a frame whose data JSON.parse() rejects, or whose parsed value has no
\* metadata: the catch of ws.onmessage logs it
MalformedFrame ==
    /\ CanReceive
    /\ OnlyLogs("malformed_frame")
    /\ UNCHANGED dispatchVars

\* a revocation frame or a frame of unknown type: logged at most
OtherFrame ==
    /\ CanReceive
    /\ OnlyLogs("other_frame")
    /\ UNCHANGED dispatchVars

\* one receiver and the asynchronous calls its frames start; no constructor
\* throws
FrameNext ==
    \/ ConnectOnce
    \/ Reconnect(FALSE)
    \/ SocketOpen
    \/ \E code \in CloseCodes : HandleClose(code)
    \/ \E id \in SessionIds \cup {NoSession}, url \in ReconnectUrls \cup {NoUrl}, timeout \in KeepaliveTimeouts :
          BindingSessionWelcome(id, url, timeout)
    \/ \E timeout \in KeepaliveTimeouts : SessionKeepalive(timeout)
    \/ \E t \in ElapsedTimes : CheckKeepalive(t)
    \/ \E dispatches, throws \in BOOLEAN : Notification(dispatches, throws)
    \/ \E n \in inflight, ok \in BOOLEAN : DispatchSettles(n, ok)
    \/ \E ok \in BOOLEAN : ShardUpdateSettles(ok)
    \/ MalformedFrame
    \/ OtherFrame

FrameSpec == Init /\ [][FrameNext]_vars

(* ------------------- keepalive on a busy connection ---------------------- *)
\* the keepalive window of the session: the server sends a frame at least this
\* often, a session_keepalive frame when it has no event to send (ms)
KeepaliveWindow == keepaliveInterval * 1000

\* session_welcome under the clock, as the first frame of a session
TrafficSessionWelcome(id, url, timeout) ==
    /\ OnSessionWelcome(id, url, timeout)
    /\ lastKeepaliveTime' = now
    /\ keepaliveDue' = IF timeout # 0 THEN now + FirstCheckIn(timeout) ELSE keepaliveDue
    /\ traffic' = [last |-> now, steady |-> TRUE]
    /\ UNCHANGED <<now, dispatchVars>>

\* a notification frame under the clock, where the dispatch of its event is
\* left out of the state: the notification case assigns no field of the
\* receiver.  The frame is recorded, with whether it came within the window.
TrafficNotification ==
    /\ CanReceive
    /\ lastOp' = "notification"
    /\ threw' = FALSE
    /\ previous' = NoSocket
    /\ stateTrace' = <<>>
    /\ traffic' = [last |-> now, steady |-> traffic.steady /\ now - traffic.last <= KeepaliveWindow]
    /\ UNCHANGED <<connectionState, reconnectAttempts, ws, wsTarget, wsReadyState, attached, live,
                   sessionVars, keepaliveTimer, reconnectTimers, graceTimers, sockets,
                   failedAttempts, halt, lastClose, announcedUrl, forcedClose,
                   clockVars, dispatchVars, delayVars, serviceVars>>

\* the keepalive timer fires when due; the time since the last frame is
\* recorded as well
TrafficCheckKeepalive ==
    /\ now >= keepaliveDue
    /\ OnCheckKeepalive(now - lastKeepaliveTime)
    /\ keepaliveDue' = IF keepaliveTimer' THEN now + NextCheckIn ELSE keepaliveDue
    /\ traffic' = [traffic EXCEPT !.steady = @ /\ now - traffic.last <= KeepaliveWindow]
    /\ UNCHANGED <<now, lastKeepaliveTime, dispatchVars>>

\* one receiver under the clock on a channel with events: the server sends
\* notification frames and, having events to send, no session_keepalive frame
TrafficNext ==
    \/ ConnectOnce
    \/ Reconnect(FALSE)
    \/ SocketOpen
    \/ \E code \in CloseCodes : HandleClose(code)
    \/ \E id \in SessionIds, timeout \in KeepaliveTimeouts :
          TrafficSessionWelcome(id, NoUrl, timeout)
    \/ TrafficNotification
    \/ TrafficCheckKeepalive
    \/ Tick

TrafficSpec == Init /\ [][TrafficNext]_vars

(* ------------------------- backoff policy ------------------------------ *)
\* Math.pow(2, n) for a natural n
RECURSIVE Pow2(_)
Pow2(n) == IF n = 0 THEN 1 ELSE 2 * Pow2(n - 1)

\* Math.min
Min(a, b) == IF a < b THEN a ELSE b

\* faulty variant: the exponential term is not capped
getReconnectDelay_NoCap(attempts, base, cap, random) ==
    base * Pow2(attempts) + random

\* faulty variant: the delay grows linearly with the attempts
getReconnectDelay_Linear(attempts, base, cap, random) ==
    Min(base * (attempts + 1), cap) + random

\* getReconnectDelay(); random is Math.random() * 1000, in whole milliseconds
getReconnectDelay(attempts, base, cap, random) ==
    Min(base * Pow2(attempts), cap) + random

\* values of Math.random() * 1000: Math.random() is in [0, 1)
Jitters == {0, 1, 999}
\* backoff options a receiver may be constructed with
BaseDelays == {100, 1000, 3000}
MaxDelays == {2000, 30000}
\* largest value of the attempt counter in the backoff specification
MaxBackoffAttempts == 6

\* construction with any of the backoff options
BackoffInit ==
    /\ Constructed
    /\ NoRegistry
    /\ NoResolution
    /\ NoWebhook
    /\ NoVerification
    /\ NoOutbound
    /\ NoTraffic
    /\ reconnectAttempts = 0
    /\ baseReconnectDelay \in BaseDelays
    /\ maxReconnectDelay \in MaxDelays

backoffFrame == <<connectionState, ws, wsTarget, wsReadyState, attached, live, sessionId, reconnectUrl,
                  keepaliveTimer, keepaliveInterval, missedKeepalives, reconnectTimers,
                  graceTimers, sockets, stateTrace, failedAttempts, halt, lastClose,
                  announcedUrl, forcedClose, clockVars, dispatchVars, baseReconnectDelay, maxReconnectDelay,
                  appVars>>

\* scheduleReconnect() reads the delay from the current attempt counter
BackoffSchedule(random) ==
    /\ lastOp' = "scheduleReconnect"
    /\ threw' = FALSE
    /\ previous' = NoSocket
    /\ scheduled' = [attempt |-> reconnectAttempts, jitter |-> random,
                     delay |-> getReconnectDelay(reconnectAttempts, baseReconnectDelay,
                                                 maxReconnectDelay, random)]
    /\ UNCHANGED <<backoffFrame, reconnectAttempts>>

\* this.reconnectAttempts++ of reconnect()
BackoffAttempt ==
    /\ reconnectAttempts < MaxBackoffAttempts
    /\ lastOp' = "reconnect"
    /\ threw' = FALSE
    /\ previous' = NoSocket
    /\ reconnectAttempts' = reconnectAttempts + 1
    /\ UNCHANGED <<backoffFrame, scheduled>>

\* this.reconnectAttempts = 0 of ws.onopen and reconnect()
BackoffReset ==
    /\ lastOp' = "open"
    /\ threw' = FALSE
    /\ previous' = NoSocket
    /\ reconnectAttempts' = 0
    /\ UNCHANGED <<backoffFrame, scheduled>>

BackoffNext ==
    \/ \E random \in Jitters : BackoffSchedule(random)
    \/ BackoffAttempt
    \/ BackoffReset

BackoffSpec == BackoffInit /\ [][BackoffNext]_vars

(* =========================== properties ================================ *)

\* C1: once the connection is lost and every later attempt fails to open, the
\* receiver makes at most maxReconnectAttempts reconnect attempts (on the
\* reconnect-URL path as well as on the default-URL path) before it gives up.
C1_RetryCeiling == failedAttempts <= maxReconnectAttempts

\* C2: after disconnect(), whatever pending timers fire, no socket exists or is
\* opened, the keepalive timer is not armed and the state stays disconnected,
\* until connect() is called.
C2_DisconnectIsFinal ==
    halt = "disconnect" =>
        /\ connectionState = "disconnected"
        /\ ws = NoSocket
        /\ ~keepaliveTimer

\* a reconnect timer that was pending at disconnect() has fired since
C2_Witness == halt = "disconnect" /\ lastOp = "reconnect"

\* C3: no reconnect sequence starts while another is in progress: a reconnect()
\* that fires while the state is connecting/reconnecting, or while the socket
\* of an earlier reconnect attempt is still opening, opens no socket and changes
\* neither the state nor the attempt counter.
C3_ReconnectMutex ==
    [][(/\ lastOp' = "reconnect"
        /\ \/ connectionState \in {"connecting", "reconnecting"}
           \/ failedAttempts > 0 /\ wsReadyState = "CONNECTING")
       => UNCHANGED <<sockets, ws, connectionState, reconnectAttempts>>]_vars

\* C4: the receiver is never left in connecting or reconnecting with nothing
\* that can resolve it (no socket whose open or close event would change the
\* state, every later reconnect() being skipped).
C4_NeverStuck ==
    connectionState \in {"connecting", "reconnecting"} => ws # NoSocket

\* C5: every reconnect attempt increases the attempt counter by one, and the
\* counter is lowered (reset to 0) only by the open event of a socket.
C5_ResetOnlyOnOpen ==
    [][/\ reconnectAttempts' < reconnectAttempts => lastOp' = "open"
       /\ (lastOp' = "reconnect" /\ failedAttempts' = failedAttempts + 1)
             => reconnectAttempts' = reconnectAttempts + 1]_vars

\* the changes of connectionState made by a step that starts in state from and
\* assigns the values of trace, in order
StateEdges(from, trace) ==
    LET full == <<from>> \o trace
    IN {<<full[i], full[i + 1]>> : i \in {j \in 1..Len(trace) : full[j] # full[j + 1]}}

SpecEdges ==
    {<<"disconnected", "connecting">>, <<"connecting", "connected">>,
     <<"connected", "reconnecting">>, <<"reconnecting", "connected">>,
     <<"reconnecting", "disconnected">>}

CodeEdges ==
    SpecEdges \cup
    {<<"connected", "disconnected">>, <<"connecting", "disconnected">>,
     <<"disconnected", "reconnecting">>, <<"reconnecting", "connecting">>}

\* C6 (as claimed): the connection state changes only along disconnected ->
\* connecting -> connected <-> reconnecting -> disconnected.
C6_OnlySpecEdges == [][StateEdges(connectionState, stateTrace') \subseteq SpecEdges]_vars

\* C6 (amended): the connection state changes only along the claimed edges and
\* connected -> disconnected, connecting -> disconnected, disconnected ->
\* reconnecting, reconnecting -> connecting.
C6_OnlyCodeEdges == [][StateEdges(connectionState, stateTrace') \subseteq CodeEdges]_vars

\* a reconnect() without reconnect URL has gone reconnecting -> connecting
C6_Witness == lastOp = "reconnect" /\ stateTrace = <<"reconnecting", "connecting">>

\* what connect() must leave alone when it is a no-op
connectFrame == <<connectionState, ws, wsTarget, wsReadyState, sockets, sessionId,
                  reconnectUrl, keepaliveTimer, reconnectAttempts>>

\* connect() opened a socket to the configured URL and is connecting
ConnectOpened ==
    /\ sockets' = sockets + 1
    /\ ws' = sockets'
    /\ wsTarget' = wsUrl
    /\ wsReadyState' = "CONNECTING"
    /\ connectionState' = "connecting"

\* C7 (as claimed): connect() in connecting/connected is a no-op; in any other
\* state it opens a new socket to the configured URL and sets the state to
\* connecting.
C7_ConnectOpens ==
    [][lastOp' = "connect" =>
         IF connectionState \in {"connecting", "connected"}
         THEN UNCHANGED connectFrame
         ELSE ConnectOpened]_vars

\* C7 (amended): connect() in connecting/connected is a no-op; in any other
\* state it either opens a new socket to the configured URL and sets the state
\* to connecting or, when the WebSocket constructor throws, ends disconnected
\* with no socket.
C7_ConnectOpensOrThrows ==
    [][lastOp' = "connect" =>
         IF connectionState \in {"connecting", "connected"}
         THEN UNCHANGED connectFrame
         ELSE \/ ConnectOpened
              \/ /\ connectionState' = "disconnected"
                 /\ ws' = NoSocket
                 /\ sockets' = sockets
                 /\ ~keepaliveTimer']_vars

\* connect() has been called on a connected receiver with a live session
C7_Witness ==
    /\ lastOp = "connect"
    /\ connectionState = "connected"
    /\ wsReadyState = "OPEN"
    /\ sessionId # NoSession
    /\ keepaliveTimer

\* C8 (as claimed): the backoff delay lies in
\* [base * 2^attempt, base * 2^attempt + 1000].
C8_DelayInExponentialWindow ==
    scheduled # NoDelay =>
        LET lo == baseReconnectDelay * Pow2(scheduled.attempt)
        IN lo <= scheduled.delay /\ scheduled.delay <= lo + 1000

\* C8 (amended): the backoff delay lies in
\* [min(base * 2^attempt, cap), min(base * 2^attempt, cap) + 1000].
C8_DelayInCappedWindow ==
    scheduled # NoDelay =>
        LET exp == baseReconnectDelay * Pow2(scheduled.attempt)
            lo  == IF exp <= maxReconnectDelay THEN exp ELSE maxReconnectDelay
        IN lo <= scheduled.delay /\ scheduled.delay <= lo + 1000

\* a delay has been computed for an attempt whose exponential term exceeds the cap
C8_Witness ==
    /\ scheduled # NoDelay
    /\ baseReconnectDelay * Pow2(scheduled.attempt) > maxReconnectDelay + 1000

\* C9: the delay of a scheduled reconnect is min(base * 2^attempt, cap) plus a
\* jitter in [0, 1000], hence at most cap + 1000, for attempt the value of the
\* attempt counter at the moment of scheduling.
C9_DelayFromCurrentAttempts ==
    [][lastOp' = "scheduleReconnect" =>
         LET jitter == scheduled'.delay
                         - Min(baseReconnectDelay * Pow2(reconnectAttempts), maxReconnectDelay)
         IN /\ 0 <= jitter /\ jitter <= 1000
            /\ scheduled'.delay <= maxReconnectDelay + 1000]_vars

\* a reconnect has been scheduled with a raised attempt counter and some jitter
C9_Witness ==
    /\ lastOp = "scheduleReconnect"
    /\ scheduled.attempt = reconnectAttempts
    /\ reconnectAttempts >= 2
    /\ scheduled.jitter > 0

\* C10: after a close with code 4001 the state is disconnected, socket and
\* keepalive timer are gone, and no socket is opened until connect() is called.
C10_NoReconnectAfter4001 ==
    halt = "4001" =>
        /\ connectionState = "disconnected"
        /\ ws = NoSocket
        /\ ~keepaliveTimer

\* C11: a close with code 4003 or 4007 drops the stored reconnect URL and
\* schedules a reconnect, and every socket created after that close, until one
\* opens, is created to the default URL, never to a reconnect URL.
C11_FreshConnectAfter4003Or4007 ==
    [][/\ (lastOp' = "close" /\ lastClose' \in {4003, 4007})
            => reconnectUrl' = NoUrl /\ reconnectTimers' = reconnectTimers + 1
       /\ (lastClose \in {4003, 4007} /\ sockets' = sockets + 1)
            => wsTarget' = wsUrl]_vars

\* C11 witness: after such a close the timer's reconnect() created a socket
C11_Witness ==
    /\ lastClose \in {4003, 4007}
    /\ lastOp = "reconnect"
    /\ ws # NoSocket
    /\ wsTarget = wsUrl

\* C12: a close with code 1000 schedules a reconnect exactly when a reconnect
\* URL is stored; with none the receiver stays disconnected and creates no
\* socket for as long as connect() is not called.
C12_Close1000ReconnectsIffUrl ==
    [][/\ (lastOp' = "close" /\ lastClose' = 1000)
            => /\ reconnectUrl' = reconnectUrl
               /\ reconnectTimers' =
                      IF reconnectUrl # NoUrl THEN reconnectTimers + 1 ELSE reconnectTimers
       /\ (lastClose = 1000 /\ reconnectUrl = NoUrl /\ connectionState = "disconnected"
              /\ lastOp' # "connect")
            => sockets' = sockets /\ connectionState' = "disconnected"]_vars

\* the close codes handled by the default branch of handleClose
OtherCloseCodes == CloseCodes \ {1000, 4001, 4003, 4007}

\* C13: a close with any other code always schedules a reconnect and keeps the
\* stored reconnect URL, and a socket the following reconnect() creates is
\* created to the stored reconnect URL when there is one, to the default URL
\* otherwise.
C13_OtherCodesAlwaysReconnect ==
    [][/\ (lastOp' = "close" /\ lastClose' \in OtherCloseCodes)
            => reconnectUrl' = reconnectUrl /\ reconnectTimers' = reconnectTimers + 1
       /\ (lastClose \in OtherCloseCodes /\ lastOp' = "reconnect" /\ sockets' = sockets + 1)
            => wsTarget' = IF reconnectUrl # NoUrl THEN reconnectUrl ELSE wsUrl]_vars

\* C13 witness: after such a close reconnect() created a socket to the stored URL
C13_Witness ==
    /\ lastClose \in OtherCloseCodes
    /\ lastOp = "reconnect"
    /\ ws # NoSocket
    /\ wsTarget \in ReconnectUrls

\* C14: a session_keepalive frame sets lastKeepaliveTime to the current time,
\* resets missedKeepalives to 0 and takes over the interval the frame carries
\* (keeping the old one when it carries none); it changes no other session
\* field (connection state, session id, reconnect URL, attempt counter), and
\* neither opens nor closes a socket nor touches a timer.
C14_KeepaliveFrameEffect ==
    [][/\ lastOp' = "session_keepalive"
            => /\ lastKeepaliveTime' = now
               /\ missedKeepalives' = 0
               /\ UNCHANGED <<connectionState, sessionId, reconnectUrl, reconnectAttempts,
                              ws, wsTarget, wsReadyState, sockets, keepaliveTimer,
                              keepaliveDue, reconnectTimers, graceTimers, now>>
       /\ \A timeout \in KeepaliveTimeouts :
             TimedSessionKeepalive(timeout)
                => keepaliveInterval' = IF timeout # 0 THEN timeout ELSE keepaliveInterval]_vars

\* C14 witness: a keepalive frame handled after time has passed since the welcome
C14_Witness ==
    /\ lastOp = "session_keepalive"
    /\ now > 0
    /\ lastKeepaliveTime = now
    /\ keepaliveInterval # DefaultKeepaliveInterval

\* C15: while the connection is monitored a check runs every
\* (keepaliveInterval + 2) seconds: the first one that long after the welcome
\* and each next one that long after the previous; a check raises
\* missedKeepalives by exactly one when now - lastKeepaliveTime exceeds
\* keepaliveInterval * 1000 + 2000 ms and leaves it unchanged otherwise.
C15_CheckEveryIntervalPlusTwo ==
    [][lastOp' = "check_keepalive"
         => /\ missedKeepalives' =
                  IF now - lastKeepaliveTime > keepaliveInterval * 1000 + 2000
                  THEN missedKeepalives + 1 ELSE missedKeepalives
            /\ keepaliveTimer' => keepaliveDue' = now + (keepaliveInterval + 2) * 1000]_vars

\* C16: when missedKeepalives reaches maxMissedKeepalives the check closes the
\* socket and arms no further check, and the close event of a socket closed
\* this way leaves a reconnect pending, whatever code it reports and whether
\* or not a reconnect URL is stored.
C16_KeepaliveCeilingReconnects ==
    [][/\ (lastOp' = "check_keepalive" /\ missedKeepalives' # missedKeepalives
              /\ missedKeepalives' >= maxMissedKeepalives)
            => wsReadyState' = "CLOSING" /\ ~keepaliveTimer' /\ forcedClose'
       /\ (forcedClose /\ lastOp' = "close") => reconnectTimers' > 0]_vars

C18_WelcomeSurvivesShardUpdateFailure ==
    [][/\ \A id \in SessionIds \cup {NoSession}, url \in ReconnectUrls \cup {NoUrl},
             timeout \in KeepaliveTimeouts \ {0} :
             BindingSessionWelcome(id, url, timeout)
                => /\ sessionId' = id
                   /\ reconnectUrl' = url
                   /\ keepaliveTimer'
                   /\ keepaliveInterval' = timeout
                   /\ id # NoSession => shardUpdates' = shardUpdates + 1
       /\ lastOp' = "shard_update_failed"
            => UNCHANGED <<connectionState, ws, wsTarget, wsReadyState, sessionId,
                           reconnectUrl, keepaliveTimer, keepaliveInterval,
                           missedKeepalives, reconnectAttempts, reconnectTimers,
                           sockets>>]_vars

\* C18 witness: the shard update failed on a connected, monitored session
C18_Witness ==
    /\ lastOp = "shard_update_failed"
    /\ connectionState = "connected"
    /\ wsReadyState = "OPEN"
    /\ sessionId # NoSession
    /\ keepaliveTimer

\* C19: a failure while dispatching a notification, or while parsing a frame,
\* changes neither the connection state nor any session field and does not
\* close the socket, and the frames that follow on the same connection are
\* still handled.
C19_FrameFailureContained ==
    /\ [][lastOp' \in {"dispatch_failed", "malformed_frame"}
            => UNCHANGED <<connectionState, ws, wsTarget, wsReadyState, sessionVars,
                           reconnectAttempts, keepaliveTimer, reconnectTimers,
                           graceTimers, sockets, shardUpdates>>]_vars
    /\ [](lastOp \in {"dispatch_failed", "malformed_frame"}
             /\ ws # NoSocket /\ wsReadyState = "OPEN"
          => /\ ENABLED SessionKeepalive(0)
             /\ ENABLED MalformedFrame
             /\ frames < MaxFrames => ENABLED Notification(TRUE, FALSE))

\* C19 witness: a dispatch failed and the connection is as it was
C19_Witness ==
    /\ lastOp = "dispatch_failed"
    /\ frames > 0
    /\ connectionState = "connected"
    /\ wsReadyState = "OPEN"

\* C20: a dispatch in flight holds nothing back: the frames that follow, the
\* keepalive check and the close event are handled while it is pending, and a
\* later dispatch may settle before an earlier one.
C20_DispatchDoesNotBlock ==
    inflight # {}
       => /\ (ws # NoSocket /\ wsReadyState = "OPEN")
               => /\ ENABLED SessionKeepalive(0)
                  /\ ENABLED OtherFrame
                  /\ ENABLED HandleClose(4001)
                  /\ frames < MaxFrames => ENABLED Notification(TRUE, FALSE)
          /\ keepaliveTimer => ENABLED CheckKeepalive(keepaliveInterval * 1000 + 2000)
          /\ \A n \in inflight : ENABLED DispatchSettles(n, TRUE)

\* C20 witness: the dispatch of the second frame settled while the first is pending
C20_Witness ==
    /\ inflight = {1}
    /\ frames >= 2
    /\ lastOp = "dispatch_done"

\* C21: no exception leaves a socket callback or a timer callback of the
\* receiver: only connect(), called by the application, may throw to its caller.
C21_NoCallbackThrows == threw => lastOp = "connect"

\* C22: at most one socket that is open or opening carries the receiver's
\* handlers, and when connect() or reconnect() has created a socket, the socket
\* that was current before has had its handlers detached and is no longer open
\* or opening.
C22_SingleConnection ==
    /\ Cardinality(attached \cap live) <= 1
    /\ attached \subseteq {ws}
    /\ previous # NoSocket => previous \notin attached \cup live

\* connect() or reconnect() has replaced a socket by a new one
C22_Witness ==
    /\ previous # NoSocket
    /\ lastOp \in {"connect", "reconnect"}
    /\ ws = sockets
    /\ wsReadyState = "CONNECTING"

\* C36: the state is connected only while the current socket's open event has
\* fired and the socket has not closed; it is never connected for a socket that
\* is still opening or for no socket.
C36_ConnectedMeansOpen ==
    connectionState = "connected" => ws # NoSocket /\ wsReadyState \in {"OPEN", "CLOSING"}

\* C37: the delayed close armed by a session_reconnect frame closes only the
\* socket the frame arrived on: when it fires after that socket has been
\* replaced, the current socket is left as it is.
C37_GraceCloseSparesReplacement ==
    [][/\ lastOp' = "grace_close"
       /\ graceTimers' # graceTimers
       /\ ws \notin graceTimers \ graceTimers'
       => wsReadyState' = wsReadyState /\ live' = live]_vars

\* C38: a reconnect timer that fires while the receiver is connected on an
\* open socket leaves the socket, the state and the attempt counter unchanged.
C38_TimerSparesHealthyConnection ==
    [][/\ lastOp' = "reconnect"
       /\ connectionState = "connected"
       /\ ws # NoSocket
       /\ wsReadyState = "OPEN"
       => /\ ws' = ws
          /\ wsReadyState' = wsReadyState
          /\ connectionState' = connectionState
          /\ reconnectAttempts' = reconnectAttempts]_vars

\* C39: the missed-keepalive counter is per session: the session_welcome of a
\* connection leaves it at 0, so that the misses which force-close a session
\* are all misses of that session.
C39_CounterIsPerSession ==
    [][lastOp' = "session_welcome" => missedKeepalives' = 0]_vars

\* C40: a connection on which notification frames keep arriving, at least
\* once per keepalive window since the welcome of its session, is never
\* force-closed by the keepalive monitor: missedKeepalives stays below the
\* ceiling.
C40_TrafficKeepsConnection ==
    traffic.steady =>
        /\ missedKeepalives < maxMissedKeepalives
        /\ ~(forcedClose /\ lastOp = "check_keepalive")

(* -------------------------- tenant resolution -------------------------- *)
\* faulty variant: the standard field is preferred to the destination field
extractReceivingBroadcasterId_StandardFirst(ev) ==
    IF IsString(ev.broadcaster_user_id) /\ Truthy(ev.broadcaster_user_id)
    THEN ev.broadcaster_user_id
    ELSE IF IsString(ev.to_broadcaster_user_id) /\ Truthy(ev.to_broadcaster_user_id)
    THEN ev.to_broadcaster_user_id
    ELSE NoTenant

\* extractReceivingBroadcasterId(event), for an event that is not null
extractReceivingBroadcasterId(ev) ==
    IF IsString(ev.to_broadcaster_user_id) /\ Truthy(ev.to_broadcaster_user_id)
    THEN ev.to_broadcaster_user_id
    ELSE IF IsString(ev.broadcaster_user_id) /\ Truthy(ev.broadcaster_user_id)
    THEN ev.broadcaster_user_id
    ELSE IF ev.data.isArray /\ Len(ev.data.items) > 0
    THEN LET d0 == ev.data.items[1]
         IN  IF Truthy(d0.to_broadcaster_user_id) THEN d0.to_broadcaster_user_id
             ELSE IF Truthy(d0.broadcaster_user_id) THEN d0.broadcaster_user_id
             ELSE NoTenant
    ELSE NoTenant

\* the payloads tenant resolution is studied on
Payloads == {ev \in Events : ev.conforms /\ ~ev.unknownKeys}

TenantInit ==
    /\ Constructed
    /\ reconnectAttempts = 0
    /\ baseReconnectDelay = DefaultBaseReconnectDelay
    /\ maxReconnectDelay = DefaultMaxReconnectDelay
    /\ NoRegistry
    /\ NoWebhook
    /\ NoVerification
    /\ NoOutbound
    /\ NoTraffic
    /\ event \in Payloads
    /\ broadcasterId = Unresolved

\* const broadcasterId = extractReceivingBroadcasterId(event)
ExtractTenant ==
    /\ broadcasterId = Unresolved
    /\ broadcasterId' = extractReceivingBroadcasterId(event)
    /\ UNCHANGED <<event, receiverVars, utilVars, registryVars, webhookVars>>

TenantNext == ExtractTenant

TenantSpec == TenantInit /\ [][TenantNext]_vars

\* the fields of the nested list, at any position
NestedValues(ev) ==
    {ev.data.items[i].to_broadcaster_user_id : i \in 1..Len(ev.data.items)} \cup
    {ev.data.items[i].broadcaster_user_id : i \in 1..Len(ev.data.items)}

\* C27: the tenant is the top-level to_broadcaster_user_id when the payload has
\* one, otherwise the top-level broadcaster_user_id, otherwise either field
\* found in the nested list, otherwise none.
C27_FallbackChain ==
    broadcasterId # Unresolved =>
        IF event.to_broadcaster_user_id # Absent
        THEN broadcasterId = event.to_broadcaster_user_id
        ELSE IF event.broadcaster_user_id # Absent
        THEN broadcasterId = event.broadcaster_user_id
        ELSE IF NestedValues(event) \ {Absent} # {}
        THEN broadcasterId \in NestedValues(event) \ {Absent}
        ELSE broadcasterId = NoTenant

\* a top-level field the resolution accepts: a non-empty string
Usable(v) == IsString(v) /\ v # EmptyString

\* C27 (amended): the tenant is the top-level to_broadcaster_user_id when that
\* is a non-empty string, otherwise the top-level broadcaster_user_id when that
\* is a non-empty string, otherwise the first element of the nested list
\* decides: its to_broadcaster_user_id when set, else its broadcaster_user_id
\* when set; otherwise there is no tenant. Only to_broadcaster_user_id = "42"
\* gives "42"; two top-level ids give the destination one.
C27_FallbackChainOnUsableFields ==
    broadcasterId # Unresolved =>
        LET to == event.to_broadcaster_user_id
            std == event.broadcaster_user_id
            items == event.data.items
        IN  /\ Usable(to) => broadcasterId = to
            /\ ~Usable(to) /\ Usable(std) => broadcasterId = std
            /\ ~Usable(to) /\ ~Usable(std) /\ items # <<>> =>
                   /\ items[1].to_broadcaster_user_id # Absent
                          => broadcasterId = items[1].to_broadcaster_user_id
                   /\ items[1].to_broadcaster_user_id = Absent
                      /\ items[1].broadcaster_user_id # Absent
                          => broadcasterId = items[1].broadcaster_user_id
                   /\ items[1].to_broadcaster_user_id = Absent
                      /\ items[1].broadcaster_user_id = Absent
                          => broadcasterId = NoTenant
            /\ ~Usable(to) /\ ~Usable(std) /\ items = <<>> => broadcasterId = NoTenant
            /\ to = "42" /\ std = Absent /\ items = <<>> => broadcasterId = "42"
            /\ to \in BroadcasterIds /\ std \in BroadcasterIds => broadcasterId = to

\* a payload with two different top-level ids has been resolved
C27_Witness ==
    /\ broadcasterId # Unresolved
    /\ event.to_broadcaster_user_id = "42"
    /\ event.broadcaster_user_id = "7"
    /\ broadcasterId = "42"

(* --------------------------- handler registry -------------------------- *)
\* the three HandlerRegistry classes of the repository
Registries == {"rest-api", "smp-bridge", "part_015"}

\* processTwitchEvent() calls in one behaviour
MaxDispatches == 3

ChatMessage == "channel.chat.message"
EventTypes == {"stream.online", ChatMessage, "channel.raid"}

\* this.twitchHandlers once the constructor has registered the handlers:
\* event type -> whether registerTwitchHandler was given a schema
twitchHandlers ==
    [eventType \in {"stream.online", ChatMessage} |-> [schema |-> eventType = "stream.online"]]

\* the payloads handed to processTwitchEvent
DispatchEvent(to, standard, conforms) ==
    [to_broadcaster_user_id |-> to, broadcaster_user_id |-> standard,
     data |-> [isArray |-> FALSE, items |-> <<>>], conforms |-> conforms, unknownKeys |-> TRUE]

DispatchEvents ==
    {DispatchEvent("42", Absent, TRUE), DispatchEvent(Absent, "7", FALSE),
     DispatchEvent(Absent, Absent, TRUE)}

\* schema.parse(data) of a conforming payload: a z.object() schema returns a
\* copy without the keys it does not know
Parse(data) == [data EXCEPT !.unknownKeys = FALSE]

\* no context has been built
NoContext == [twitchApi |-> 0, broadcasterId |-> NoTenant]

\* faulty variant: one API client is kept per tenant
NewContext_PerTenant(id) ==
    IF \E n \in 1..Len(calls) : calls[n].context.broadcasterId = id
    THEN LET n == CHOOSE n \in 1..Len(calls) : calls[n].context.broadcasterId = id
         IN  calls[n].context
    ELSE [twitchApi |-> twitchApis + 1, broadcasterId |-> id]

\* const twitchApi = new TwitchApi(broadcasterId); const context = { twitchApi }
NewContext(id) == [twitchApi |-> twitchApis + 1, broadcasterId |-> id]

\* a processTwitchEvent() call that has got as far as its first statement
Called(eventType, ev) ==
    [eventType |-> eventType, event |-> ev, status |-> "resolved", logged |-> "",
     context |-> NoContext, validated |-> "none", handlerCalled |-> FALSE,
     handlerData |-> NoEvent, logging |-> FALSE, detached |-> FALSE]

\* faulty variant: the wrapper has no try/catch
WrappedHandler_Rethrows(call, data, outcome, detaches) ==
    LET schema == twitchHandlers[call.eventType].schema
    IN  IF schema /\ ~data.conforms
        THEN [call EXCEPT !.status = "rejected", !.validated = "rejected"]
        ELSE [call EXCEPT !.status = IF outcome = "throws" THEN "rejected"
                                      ELSE IF outcome = "pending" THEN "handler" ELSE "resolved",
                          !.validated = IF schema THEN "accepted" ELSE "none",
                          !.handlerCalled = TRUE,
                          !.handlerData = IF schema THEN Parse(data) ELSE data,
                          !.detached = detaches]

\* faulty variant: the real handler is called with the raw payload, whatever
\* the schema says
WrappedHandler_SkipsValidation(call, data, outcome, detaches) ==
    [call EXCEPT !.status = IF outcome = "pending" THEN "handler" ELSE "resolved",
                 !.logged = IF outcome = "throws" THEN "Error in handler" ELSE "",
                 !.handlerCalled = TRUE,
                 !.handlerData = data,
                 !.detached = detaches]

\* the wrapper stored by registerTwitchHandler, called with (data, context):
\* schema.parse(data) if a schema was given, then await handler(parsedData,
\* context); what either throws is caught and logged. The handler throws at
\* once, returns at once or returns a pending promise, and may have started
\* work it does not await.
WrappedHandler(call, data, outcome, detaches) ==
    LET schema == twitchHandlers[call.eventType].schema
    IN  IF schema /\ ~data.conforms
        THEN [call EXCEPT !.status = "resolved", !.logged = "Error in handler",
                          !.validated = "rejected"]
        ELSE [call EXCEPT !.status = IF outcome = "pending" THEN "handler" ELSE "resolved",
                          !.logged = IF outcome = "throws" THEN "Error in handler" ELSE "",
                          !.validated = IF schema THEN "accepted" ELSE "none",
                          !.handlerCalled = TRUE,
                          !.handlerData = IF schema THEN Parse(data) ELSE data,
                          !.detached = detaches]

\* processTwitchEvent of smp-bridge up to the point where it awaits or returns
SmpBridgeProcess(eventType, ev, outcome, detaches) ==
    LET id == extractReceivingBroadcasterId(ev)
    IN  IF eventType \notin DOMAIN twitchHandlers
        THEN [Called(eventType, ev) EXCEPT !.logged = "No handler found"]
        ELSE IF id = NoTenant
        THEN [Called(eventType, ev) EXCEPT !.logged = "No broadcaster id found"]
        ELSE WrappedHandler([Called(eventType, ev) EXCEPT !.context = NewContext(id)],
                            ev, outcome, detaches)

\* processTwitchEvent of part_015: the event is logged (not awaited) and the
\* context is built before the handler is looked at
Part015Process(eventType, ev, outcome, detaches) ==
    LET id == extractReceivingBroadcasterId(ev)
        built == [Called(eventType, ev) EXCEPT !.logging = (eventType # ChatMessage),
                                               !.context = NewContext(id)]
    IN  IF id = NoTenant
        THEN [Called(eventType, ev) EXCEPT !.logged = "No broadcaster id found"]
        ELSE IF eventType \notin DOMAIN twitchHandlers
        THEN [built EXCEPT !.logged = "No handler found"]
        ELSE WrappedHandler(built, ev, outcome, detaches)

\* processTwitchEvent of rest-api up to the awaited database query
RestApiProcess(eventType, ev) ==
    IF extractReceivingBroadcasterId(ev) = NoTenant
    THEN [Called(eventType, ev) EXCEPT !.status = "rejected",
                                       !.logged = "No broadcaster id found"]
    ELSE [Called(eventType, ev) EXCEPT !.status = "lookup"]

\* processTwitchEvent of rest-api after the database query
RestApiResume(call, found, outcome, detaches) ==
    IF ~found
    THEN [call EXCEPT !.status = "resolved", !.logged = "Broadcaster not found"]
    ELSE IF call.eventType \notin DOMAIN twitchHandlers
    THEN [call EXCEPT !.status = "resolved", !.logged = "No handler found"]
    ELSE WrappedHandler(
             [call EXCEPT !.context = NewContext(extractReceivingBroadcasterId(call.event))],
             call.event, outcome, detaches)

RegistryInit ==
    /\ Constructed
    /\ reconnectAttempts = 0
    /\ baseReconnectDelay = DefaultBaseReconnectDelay
    /\ maxReconnectDelay = DefaultMaxReconnectDelay
    /\ NoResolution
    /\ NoWebhook
    /\ NoVerification
    /\ NoOutbound
    /\ NoTraffic
    /\ registry \in Registries
    /\ calls = <<>>
    /\ twitchApis = 0
    /\ unhandledRejections = 0

\* the call n of processTwitchEvent goes on as `call`
Continue(n, call) ==
    /\ calls' = [calls EXCEPT ![n] = call]
    /\ twitchApis' = IF call.context.twitchApi > twitchApis
                     THEN call.context.twitchApi ELSE twitchApis
    /\ UNCHANGED <<registry, tenantVars, receiverVars, utilVars>>

\* handlers.processTwitchEvent(eventType, event) is called
ProcessTwitchEvent(eventType, ev, outcome, detaches) ==
    /\ Len(calls) < MaxDispatches
    /\ LET call == IF registry = "smp-bridge"
                   THEN SmpBridgeProcess(eventType, ev, outcome, detaches)
                   ELSE IF registry = "part_015"
                   THEN Part015Process(eventType, ev, outcome, detaches)
                   ELSE RestApiProcess(eventType, ev)
       IN  /\ calls' = Append(calls, call)
           /\ twitchApis' = IF call.context.twitchApi > twitchApis
                            THEN call.context.twitchApi ELSE twitchApis
    /\ UNCHANGED <<registry, unhandledRejections, tenantVars, receiverVars, utilVars>>

\* the database query awaited by call n of rest-api settles
LookupSettles(n, found, outcome, detaches) ==
    /\ n \in 1..Len(calls)
    /\ calls[n].status = "lookup"
    /\ Continue(n, RestApiResume(calls[n], found, outcome, detaches))
    /\ UNCHANGED unhandledRejections

\* the promise of the real handler awaited by the wrapper of call n settles;
\* a rejection is caught by the wrapper and logged
HandlerSettles(n, ok) ==
    /\ n \in 1..Len(calls)
    /\ calls[n].status = "handler"
    /\ Continue(n, [calls[n] EXCEPT !.status = "resolved",
                                    !.logged = IF ok THEN "" ELSE "Error in handler"])
    /\ UNCHANGED unhandledRejections

\* work the handler of call n started without awaiting it settles
DetachedSettles(n, ok) ==
    /\ n \in 1..Len(calls)
    /\ calls[n].detached
    /\ Continue(n, [calls[n] EXCEPT !.detached = FALSE])
    /\ unhandledRejections' = unhandledRejections + (IF ok THEN 0 ELSE 1)

\* the logTwitchEvent() promise that call n of part_015 did not await settles
LoggingSettles(n, ok) ==
    /\ n \in 1..Len(calls)
    /\ calls[n].logging
    /\ Continue(n, [calls[n] EXCEPT !.logging = FALSE])
    /\ unhandledRejections' = unhandledRejections + (IF ok THEN 0 ELSE 1)

\* the handlers registered by rest-api start their work without awaiting it
\* and return at once; those of the other two await it
HandlerOutcomes == IF registry = "rest-api" THEN {"returns"} ELSE {"throws", "pending"}
HandlerDetaches == IF registry = "rest-api" THEN {TRUE} ELSE {FALSE}

RegistryNext ==
    \/ \E eventType \in EventTypes, ev \in DispatchEvents, outcome \in HandlerOutcomes, detaches \in HandlerDetaches :
          ProcessTwitchEvent(eventType, ev, outcome, detaches) /\ UNCHANGED webhookVars
    \/ \E n \in 1..MaxDispatches, found \in BOOLEAN, outcome \in HandlerOutcomes, detaches \in HandlerDetaches :
          LookupSettles(n, found, outcome, detaches) /\ UNCHANGED webhookVars
    \/ \E n \in 1..MaxDispatches, ok \in BOOLEAN : HandlerSettles(n, ok) /\ UNCHANGED webhookVars
    \/ \E n \in 1..MaxDispatches, ok \in BOOLEAN : DetachedSettles(n, ok) /\ UNCHANGED webhookVars
    \/ \E n \in 1..MaxDispatches, ok \in BOOLEAN : LoggingSettles(n, ok) /\ UNCHANGED webhookVars

RegistrySpec == RegistryInit /\ [][RegistryNext]_vars

\* the call could reach its handler: a handler is registered for its type, its
\* tenant resolves and is known, and its payload conforms to the schema, if any
Deliverable(call) ==
    /\ call.eventType \in DOMAIN twitchHandlers
    /\ extractReceivingBroadcasterId(call.event) # NoTenant
    /\ twitchHandlers[call.eventType].schema => call.event.conforms
    /\ call.status # "lookup"
    /\ call.logged # "Broadcaster not found"

\* C23: a validation failure or a handler exception never rejects the promise
\* of processTwitchEvent, and whatever happened to earlier events, the handler
\* of every later deliverable event is invoked.
C23_DispatchIsolation ==
    \A n \in 1..Len(calls) :
        /\ calls[n].status = "rejected"
              => /\ calls[n].validated # "rejected"
                 /\ ~calls[n].handlerCalled
                 /\ calls[n].logged # "Error in handler"
        /\ Deliverable(calls[n]) => calls[n].handlerCalled

\* two events of one type failed in their handler, the handler of a third event
\* of another type was invoked all the same
C23_Witness ==
    /\ Len(calls) = 3
    /\ calls[1].eventType = "stream.online" /\ calls[1].logged = "Error in handler"
    /\ calls[1].handlerCalled
    /\ calls[2].eventType = "stream.online" /\ calls[2].logged = "Error in handler"
    /\ calls[3].eventType = ChatMessage /\ calls[3].handlerCalled

\* C24: no failure of the work started for a dispatched event escapes as an
\* unhandled rejection.
C24_NoUnhandledRejection == unhandledRejections = 0

\* C25: a call for an event type without a registered handler does not throw,
\* invokes no handler and builds no context.
C25_UnknownTypeBuildsNothing ==
    \A n \in 1..Len(calls) :
        calls[n].eventType \notin DOMAIN twitchHandlers
            => /\ calls[n].status # "rejected"
               /\ ~calls[n].handlerCalled
               /\ calls[n].context = NoContext

\* C26: a call for a payload that carries neither tenant field, at the top or
\* in its nested list, does not throw, invokes no handler and builds no context.
C26_NoTenantDropsQuietly ==
    \A n \in 1..Len(calls) :
        (/\ calls[n].event.to_broadcaster_user_id = Absent
         /\ calls[n].event.broadcaster_user_id = Absent
         /\ NestedValues(calls[n].event) \subseteq {Absent})
            => /\ calls[n].status # "rejected"
               /\ ~calls[n].handlerCalled
               /\ calls[n].context = NoContext

\* C28: a handler registered with a schema is invoked only for a payload the
\* schema accepted and is given what the schema returned; for a payload the
\* schema rejected it is not invoked and processTwitchEvent resolves.
C28_ValidatedBeforeHandler ==
    \A n \in 1..Len(calls) :
        LET call == calls[n]
        IN  /\ call.handlerCalled /\ twitchHandlers[call.eventType].schema
                  => /\ call.validated = "accepted"
                     /\ call.event.conforms
                     /\ call.handlerData = Parse(call.event)
            /\ call.validated = "rejected"
                  => ~call.event.conforms /\ ~call.handlerCalled /\ call.status = "resolved"
            /\ (/\ call.eventType \in DOMAIN twitchHandlers
                /\ twitchHandlers[call.eventType].schema
                /\ ~call.event.conforms)
                  => ~call.handlerCalled

\* one payload was accepted and handed on without its unknown keys, another was
\* rejected
C28_Witness ==
    /\ \E n \in 1..Len(calls) :
          /\ calls[n].validated = "accepted"
          /\ calls[n].handlerCalled
          /\ calls[n].handlerData # calls[n].event
    /\ \E n \in 1..Len(calls) : calls[n].validated = "rejected"

\* C29: the context of every event whose handler is invoked is bound to the
\* tenant resolved for that event, and no two calls have the same API client.
C29_FreshContextPerEvent ==
    /\ \A n \in 1..Len(calls) :
          /\ calls[n].handlerCalled => calls[n].context # NoContext
          /\ calls[n].context # NoContext
                => /\ calls[n].context.broadcasterId
                         = extractReceivingBroadcasterId(calls[n].event)
                   /\ calls[n].context.twitchApi \in 1..twitchApis
    /\ \A n, m \in 1..Len(calls) :
          n # m /\ calls[n].context # NoContext /\ calls[m].context # NoContext
                => calls[n].context.twitchApi # calls[m].context.twitchApi

\* two handlers are running at once for events of the same tenant
C29_Witness ==
    \E n, m \in 1..Len(calls) :
        /\ n # m
        /\ calls[n].status = "handler" /\ calls[m].status = "handler"
        /\ calls[n].context.broadcasterId = "42"
        /\ calls[m].context.broadcasterId = "42"

(* ------------------------------ webhook -------------------------------- *)
\* webhook requests in one behaviour
MaxRequests == 2

MESSAGE_TYPE_VERIFICATION == "webhook_callback_verification"
MESSAGE_TYPE_NOTIFICATION == "notification"
MESSAGE_TYPE_REVOCATION == "revocation"
MessageTypes ==
    {MESSAGE_TYPE_VERIFICATION, MESSAGE_TYPE_NOTIFICATION, MESSAGE_TYPE_REVOCATION,
     "unknown message type"}

\* a request body: its bytes, and what JSON.parse makes of its text
\* subscription tells whether the parsed body has a subscription object
Body(bytes, json, challenge, subscription, subscriptionType, ev) ==
    [bytes |-> bytes, json |-> json, challenge |-> challenge, subscription |-> subscription,
     subscriptionType |-> subscriptionType, event |-> ev]

\* request bodies: a challenge with and without a subscription object, an
\* empty challenge, a challenge that is not a string, two notifications, and
\* text that is not JSON
Bodies ==
    {Body(<<99>>, TRUE, "challenge-1", TRUE, "stream.online", NoEvent),
     Body(<<99, 48>>, TRUE, "challenge-1", FALSE, "", NoEvent),
     Body(<<99, 49>>, TRUE, EmptyString, TRUE, "stream.online", NoEvent),
     Body(<<99, 50>>, TRUE, NotAString, TRUE, "stream.online", NoEvent),
     Body(<<110>>, TRUE, Absent, TRUE, "stream.online", DispatchEvent("42", Absent, TRUE)),
     Body(<<110, 50>>, TRUE, Absent, TRUE, "stream.online", DispatchEvent(Absent, Absent, TRUE)),
     Body(<<120>>, FALSE, Absent, FALSE, "", NoEvent)}

\* rawBody: await clonedRequest.text()
RawBody(req) == StringBody(utf8Decode(req.body.bytes))

\* signature headers a request can carry: none, the right one, one made with
\* another secret, the right one with bytes appended, one made for another body
SignaturesFor(messageId, timestamp, body) ==
    {NoSignature,
     Sign(OtherSecret, messageId, timestamp, ArrayBufferBody(body.bytes)),
     [Sign(WebhookSecret, messageId, timestamp, ArrayBufferBody(body.bytes)) EXCEPT !.padded = TRUE]}
    \cup {Sign(WebhookSecret, messageId, timestamp, ArrayBufferBody(bytes)) :
            bytes \in {body.bytes, body.bytes \o <<32>>}}

Requests ==
    UNION {{[messageId |-> messageId, timestamp |-> timestamp, signature |-> signature,
             messageType |-> messageType, body |-> body] :
                signature \in SignaturesFor(messageId, timestamp, body)} :
           messageId \in {NoHeader, <<105>>}, timestamp \in {NoHeader, <<116>>},
           messageType \in MessageTypes \cup {Absent}, body \in Bodies}

\* faulty variant: the signature is not looked at
twitchEventSubVerification_SkipsSignature(req) ==
    IF \/ req.messageId = NoHeader \/ req.timestamp = NoHeader
       \/ req.signature = NoSignature \/ req.messageType = Absent
    THEN [status |-> 400, body |-> "Missing required headers"]
    ELSE IF ~req.body.json
    THEN [status |-> 400, body |-> "Invalid JSON"]
    ELSE NoResponse

\* the middleware twitchEventSubVerification: its response, or NoResponse when
\* it calls next()
twitchEventSubVerification(req) ==
    IF \/ req.messageId = NoHeader \/ req.timestamp = NoHeader
       \/ req.signature = NoSignature \/ req.messageType = Absent
    THEN [status |-> 400, body |-> "Missing required headers"]
    ELSE IF ~verifySignature(req.messageId, req.timestamp, RawBody(req), req.signature)
    THEN [status |-> 403, body |-> "Invalid signature"]
    ELSE IF ~req.body.json
    THEN [status |-> 400, body |-> "Invalid JSON"]
    ELSE NoResponse

\* the answer to a request whose handling threw
InternalServerError == [status |-> 500, body |-> "Internal server error"]

\* handleVerification(c, notification); reading notification.subscription.id
\* for the log line throws when the body has no subscription object
handleVerification(notification) ==
    IF ~Truthy(notification.challenge) \/ ~IsString(notification.challenge)
    THEN [status |-> 400, body |-> "Invalid challenge"]
    ELSE IF ~notification.subscription
    THEN InternalServerError
    ELSE [status |-> 200, body |-> notification.challenge]

\* handleRevocation(c, notification)
handleRevocation(notification) ==
    IF ~notification.subscription
    THEN InternalServerError
    ELSE [status |-> 204, body |-> ""]

\* handleTwitchEventSub for the message types that are answered at once
handleTwitchEventSub(req) ==
    IF req.messageType = MESSAGE_TYPE_VERIFICATION
    THEN handleVerification(req.body)
    ELSE IF req.messageType = MESSAGE_TYPE_REVOCATION
    THEN handleRevocation(req.body)
    ELSE [status |-> 204, body |-> ""]

WebhookInit ==
    /\ Constructed
    /\ reconnectAttempts = 0
    /\ baseReconnectDelay = DefaultBaseReconnectDelay
    /\ maxReconnectDelay = DefaultMaxReconnectDelay
    /\ NoResolution
    /\ NoWebhook
    /\ NoVerification
    /\ NoOutbound
    /\ NoTraffic
    /\ registry = "rest-api"
    /\ calls = <<>>
    /\ twitchApis = 0
    /\ unhandledRejections = 0

\* POST /webhooks/twitch/eventsub: rawBodyMiddleware, twitchEventSubVerification
\* and, if that calls next(), handleTwitchEventSub up to its response or to the
\* await in processTwitchEvent. An error thrown by the route is answered with 500.
Receive(req) ==
    /\ requests < MaxRequests
    /\ request = NoRequest \/ response # NoResponse
    /\ requests' = requests + 1
    /\ request' = req
    /\ LET verdict == twitchEventSubVerification(req)
       IN  IF verdict # NoResponse
           THEN /\ response' = verdict
                /\ routed' = FALSE
                /\ dispatched' = 0
                /\ UNCHANGED <<calls, twitchApis>>
           ELSE IF req.messageType # MESSAGE_TYPE_NOTIFICATION \/ ~req.body.subscription
           THEN /\ response' = IF req.messageType = MESSAGE_TYPE_NOTIFICATION
                                THEN InternalServerError
                                ELSE handleTwitchEventSub(req)
                /\ routed' = TRUE
                /\ dispatched' = 0
                /\ UNCHANGED <<calls, twitchApis>>
           ELSE LET call == RestApiProcess(req.body.subscriptionType, req.body.event)
                IN  /\ Len(calls) < MaxDispatches
                    /\ calls' = Append(calls, call)
                    /\ routed' = TRUE
                    /\ dispatched' = Len(calls) + 1
                    /\ response' = IF call.status = "rejected"
                                   THEN InternalServerError
                                   ELSE NoResponse
                    /\ UNCHANGED twitchApis
    /\ UNCHANGED <<registry, unhandledRejections, tenantVars, receiverVars, utilVars>>

\* await handleEventsub(notification) returns: return c.body(null, 204)
NotificationProcessed ==
    /\ dispatched # 0
    /\ response = NoResponse
    /\ calls[dispatched].status = "resolved"
    /\ response' = [status |-> 204, body |-> ""]
    /\ UNCHANGED <<requests, request, routed, dispatched, registryVars, tenantVars,
                   receiverVars, utilVars>>

WebhookNext ==
    \/ \E req \in Requests : Receive(req)
    \/ \E n \in 1..MaxDispatches, found \in BOOLEAN, outcome \in HandlerOutcomes, detaches \in HandlerDetaches :
          LookupSettles(n, found, outcome, detaches) /\ UNCHANGED webhookVars
    \/ \E n \in 1..MaxDispatches, ok \in BOOLEAN : DetachedSettles(n, ok) /\ UNCHANGED webhookVars
    \/ NotificationProcessed

WebhookSpec == WebhookInit /\ [][WebhookNext]_vars

\* a required header of the request is missing
MissingHeader(req) ==
    \/ req.messageId = NoHeader
    \/ req.timestamp = NoHeader
    \/ req.signature = NoSignature
    \/ req.messageType = Absent

\* the signature header is the one Twitch computes for this request
ValidSignature(req) ==
    req.signature = Sign(WebhookSecret, req.messageId, req.timestamp, ArrayBufferBody(req.body.bytes))

Verified(req) == ~MissingHeader(req) /\ ValidSignature(req) /\ req.body.json

\* C32: a verified request of type webhook_callback_verification whose body
\* carries a challenge string is answered 200 with exactly that string as the
\* response body, and no processTwitchEvent call is made for it.
C32_ChallengeEchoed ==
    /\ [](/\ request # NoRequest
          /\ Verified(request)
          /\ request.messageType = MESSAGE_TYPE_VERIFICATION
          /\ IsString(request.body.challenge)
          => /\ response.status = 200
             /\ response.body = request.body.challenge
             /\ dispatched = 0)
    /\ [][/\ requests' # requests
          /\ Verified(request')
          /\ request'.messageType = MESSAGE_TYPE_VERIFICATION
          => calls' = calls /\ twitchApis' = twitchApis]_vars

\* C33: a verified notification is answered only once the processing of its
\* event, the work started by the registered handler included, has completed
\* or failed, and the answer is then 204 with an empty body.
C33_ProcessThenRespond ==
    /\ request # NoRequest
    /\ Verified(request)
    /\ request.messageType = MESSAGE_TYPE_NOTIFICATION
    /\ response # NoResponse
    => /\ response = [status |-> 204, body |-> ""]
       /\ dispatched # 0
       /\ calls[dispatched].status = "resolved"
       /\ ~calls[dispatched].detached

(* -------------------- signature verifier on its own -------------------- *)
\* longest body handed to verifySignature
MaxBodyLen == 3

\* bytes of an ArrayBuffer body: "a", the bytes of U+FFFD (239 191 189), and
\* bytes that start or are no UTF-8 sequence (240, 255)
BodyBytes == {97, 189, 191, 239, 240, 255}

\* code units of a string body: "a", U+FFFD, and a surrogate
BodyChars == {97, 65533, 55296}

VerifierBodies ==
    UNION {{ArrayBufferBody(b) : b \in [1..n -> BodyBytes]} \cup
           {StringBody(c) : c \in [1..n -> BodyChars]} : n \in 0..MaxBodyLen}

\* message ids and timestamps: "i", "it" and "1", "t1"
MessageIds == {<<105>>, <<105, 116>>}
Timestamps == {<<49>>, <<116, 49>>}

\* the bytes of a body as it was received
BytesOf(body) == IF body.type = "string" THEN utf8Encode(body.data) ELSE body.data

\* "sha256=" + hex(HMAC-SHA256(secret, messageId + timestamp + body))
TwitchSignature(secret, messageId, timestamp, body) ==
    [prefix |-> HMAC_PREFIX,
     hmac |-> [key |-> secret,
               message |-> utf8Encode(messageId) \o utf8Encode(timestamp) \o BytesOf(body)],
     padded |-> FALSE]

\* signature headers handed to verifySignature with a body: none, the one of
\* Twitch for these or other headers and this or another secret, the one made
\* with buildHmacMessage and generateHmac, and one with a byte appended
ReceivedSignatures(messageId, timestamp, body) ==
    {NoSignature,
     Sign(WebhookSecret, messageId, timestamp, body),
     [Sign(WebhookSecret, messageId, timestamp, body) EXCEPT !.padded = TRUE]}
    \cup {TwitchSignature(secret, m, t, body) :
            secret \in {WebhookSecret, OtherSecret}, m \in MessageIds, t \in Timestamps}

\* the arguments of a call that has not been made yet
Arguments(messageId, timestamp, body, receivedSignature) ==
    [called |-> FALSE, messageId |-> messageId, timestamp |-> timestamp, body |-> body,
     receivedSignature |-> receivedSignature, valid |-> FALSE]

\* the call made with them
Call(messageId, timestamp, body, receivedSignature) ==
    [called |-> TRUE, messageId |-> messageId, timestamp |-> timestamp, body |-> body,
     receivedSignature |-> receivedSignature,
     valid |-> verifySignature(messageId, timestamp, body, receivedSignature)]

SignatureInit ==
    /\ Constructed
    /\ reconnectAttempts = 0
    /\ baseReconnectDelay = DefaultBaseReconnectDelay
    /\ maxReconnectDelay = DefaultMaxReconnectDelay
    /\ NoRegistry
    /\ NoResolution
    /\ NoWebhook
    /\ NoOutbound
    /\ NoTraffic
    /\ earlier = NoCall
    /\ \E messageId \in MessageIds, timestamp \in Timestamps, body \in VerifierBodies :
          \E receivedSignature \in ReceivedSignatures(messageId, timestamp, body) :
              verification = Arguments(messageId, timestamp, body, receivedSignature)

\* verifySignature is called with the arguments drawn
VerifySignature ==
    /\ ~verification.called
    /\ verification' = Call(verification.messageId, verification.timestamp,
                            verification.body, verification.receivedSignature)
    /\ UNCHANGED <<earlier, tokenVars, trafficVars, receiverVars, registryVars, tenantVars, webhookVars>>

\* verifySignature is called once more with the same arguments
VerifyAgain ==
    /\ verification.called
    /\ ~earlier.called
    /\ earlier' = verification
    /\ verification' = Call(verification.messageId, verification.timestamp,
                            verification.body, verification.receivedSignature)
    /\ UNCHANGED <<tokenVars, trafficVars, receiverVars, registryVars, tenantVars, webhookVars>>

\* after a call that returned true, verifySignature is called with the same
\* headers and a body of which byte (or code unit) i has been changed to b
VerifyChangedBody(i, b) ==
    /\ verification.called
    /\ ~earlier.called
    /\ verification.valid
    /\ i \in 1..Len(verification.body.data)
    /\ b \in (IF verification.body.type = "string" THEN BodyChars ELSE BodyBytes)
    /\ b # verification.body.data[i]
    /\ earlier' = verification
    /\ verification' = Call(verification.messageId, verification.timestamp,
                            [verification.body EXCEPT !.data[i] = b],
                            verification.receivedSignature)
    /\ UNCHANGED <<tokenVars, trafficVars, receiverVars, registryVars, tenantVars, webhookVars>>

SignatureNext ==
    \/ VerifySignature
    \/ VerifyAgain
    \/ \E i \in 1..MaxBodyLen, b \in BodyBytes \cup BodyChars : VerifyChangedBody(i, b)

SignatureSpec == SignatureInit /\ [][SignatureNext]_vars

\* C31: verifySignature returns true exactly when the received signature is
\* "sha256=" + hex(HMAC-SHA256(secret, messageId + timestamp + body)), returns
\* the same for the same arguments, and returns false once any byte of the
\* body of a call that returned true has been changed.
C31_VerifiesExactlyTheSignedBytes ==
    /\ verification.called =>
          (verification.valid <=>
              verification.receivedSignature =
                  TwitchSignature(WebhookSecret, verification.messageId,
                                  verification.timestamp, verification.body))
    /\ verification.called /\ earlier.called /\ earlier.valid =>
          IF earlier.body = verification.body
          THEN verification.valid
          ELSE ~verification.valid

(* -------------------------- outbound API client ------------------------ *)
\* outbound calls in one behaviour
MaxCalls == 2

\* latest reading of the clock (ms)
MaxClock == 2000

\* tokens issued in one behaviour
MaxTokens == 3

\* TwitchApiBaseClient.MAX_RETRIES
MAX_RETRIES == 2

\* HTTP statuses the API answers with
ResponseStatuses == {200, 401, 500}

\* checkTokenExpiry(updated_at, expires_in)
checkTokenExpiry(updated_at, expires_in) ==
    LET updatedAtTimestamp == updated_at
        expiresInMs == expires_in * 1000
    IN  clock > updatedAtTimestamp + expiresInMs

\* an outbound call as axios holds it: the instance it was made on, how far it
\* has got, config.__retryCount and the Authorization token of its config;
\* and what has happened to it: requests put on the wire, 401 answers received,
\* refreshes started on a 401, api(config) retries, whether the app token read
\* last was found expired, and the token the refresh before use returned
NewCall(api) ==
    [api |-> api, status |-> "created", retryCount |-> 0, bearer |-> -1,
     sends |-> 0, unauthorized |-> 0, refreshes |-> 0, retries |-> 0,
     expired |-> FALSE, refreshed |-> -1]

\* the request interceptor of clientApi(), up to the request being sent;
\* stored is what getChannelAccessToken() finds
ClientRequest(call, stored, readable) ==
    IF ~readable
    THEN [call EXCEPT !.status = "rejected"]
    ELSE [call EXCEPT !.bearer = stored, !.status = "sent", !.sends = @ + 1]

\* the request interceptor of appApi(), up to its await of refreshAppToken()
\* or to the request being sent; stored is what getTwitchAppToken() finds
AppRequest(call, stored, readable) ==
    IF ~readable
    THEN [call EXCEPT !.status = "rejected"]
    ELSE IF checkTokenExpiry(stored.updated_at, stored.expires_in)
    THEN [call EXCEPT !.status = "refreshing before use", !.expired = TRUE,
                      !.refreshed = -1, !.bearer = stored.access_token]
    ELSE [call EXCEPT !.bearer = stored.access_token, !.expired = FALSE,
                      !.refreshed = -1, !.status = "sent", !.sends = @ + 1]

RequestInterceptor(call, channel, app, readable) ==
    IF call.api = "client"
    THEN ClientRequest(call, channel, readable)
    ELSE AppRequest(call, app, readable)

\* the response interceptor of either instance for an error response, up to
\* its await of the refresh
ResponseInterceptor(call, statusCode) ==
    LET currentRetryCount == call.retryCount
        seen == [call EXCEPT !.unauthorized = @ + (IF statusCode = 401 THEN 1 ELSE 0)]
    IN  IF statusCode = 401 /\ currentRetryCount < MAX_RETRIES
        THEN [seen EXCEPT !.retryCount = currentRetryCount + 1,
                          !.refreshes = @ + 1, !.status = "refreshing"]
        ELSE [seen EXCEPT !.status = "rejected"]

TokenInit ==
    /\ Constructed
    /\ reconnectAttempts = 0
    /\ baseReconnectDelay = DefaultBaseReconnectDelay
    /\ maxReconnectDelay = DefaultMaxReconnectDelay
    /\ NoRegistry
    /\ NoResolution
    /\ NoWebhook
    /\ NoVerification
    /\ NoOutbound
    /\ NoTraffic

tokenFrame == <<receiverVars, registryVars, tenantVars, webhookVars, signatureVars, trafficVars>>

\* a call is made on clientApi() or appApi(): the request interceptor runs;
\* readable tells whether the token is read from the database without error
Request(api, readable) ==
    /\ Len(outbound) < MaxCalls
    /\ outbound' = Append(outbound, RequestInterceptor(NewCall(api), channelToken, appToken, readable))
    /\ UNCHANGED <<clock, appToken, channelToken, issued, tokenFrame>>

\* refreshAppToken() awaited by the request interceptor of call n settles. The
\* row is saved without updated_at; touched tells whether the database sets it
RefreshBeforeUseSettles(n, ok, touched) ==
    /\ n \in 1..Len(outbound)
    /\ outbound[n].status = "refreshing before use"
    /\ ok => issued < MaxTokens
    /\ IF ok
       THEN /\ issued' = issued + 1
            /\ appToken' = [access_token |-> issued + 1, expires_in |-> TokenLifetime,
                            updated_at |-> IF touched THEN clock ELSE appToken.updated_at]
            /\ outbound' = [outbound EXCEPT ![n] =
                               [@ EXCEPT !.refreshed = issued + 1, !.status = "sent",
                                         !.sends = @ + 1]]
       ELSE /\ outbound' = [outbound EXCEPT ![n] = [@ EXCEPT !.status = "rejected"]]
            /\ UNCHANGED <<issued, appToken>>
    /\ UNCHANGED <<clock, channelToken, tokenFrame>>

\* the API answers the request of call n that is on the wire
Response(n, statusCode) ==
    /\ n \in 1..Len(outbound)
    /\ outbound[n].status = "sent"
    /\ outbound' = [outbound EXCEPT ![n] =
                       IF statusCode = 200
                       THEN [@ EXCEPT !.status = "resolved"]
                       ELSE ResponseInterceptor(@, statusCode)]
    /\ UNCHANGED <<clock, appToken, channelToken, issued, tokenFrame>>

\* the refresh awaited by the response interceptor of call n settles; with a
\* new token the call is retried with api(config), which runs the request
\* interceptor again
RefreshSettles(n, ok, touched, readable) ==
    /\ n \in 1..Len(outbound)
    /\ outbound[n].status = "refreshing"
    /\ ok => issued < MaxTokens
    /\ IF ok
       THEN /\ issued' = issued + 1
            /\ IF outbound[n].api = "client"
               THEN /\ channelToken' = issued + 1
                    /\ UNCHANGED appToken
               ELSE /\ appToken' = [access_token |-> issued + 1, expires_in |-> TokenLifetime,
                                    updated_at |-> IF touched THEN clock ELSE appToken.updated_at]
                    /\ UNCHANGED channelToken
            /\ outbound' = [outbound EXCEPT ![n] =
                               RequestInterceptor([@ EXCEPT !.bearer = issued + 1,
                                                            !.retries = @ + 1],
                                                  channelToken', appToken', readable)]
       ELSE /\ outbound' = [outbound EXCEPT ![n] = [@ EXCEPT !.status = "rejected"]]
            /\ UNCHANGED <<issued, appToken, channelToken>>
    /\ UNCHANGED <<clock, tokenFrame>>

\* time passes
Later ==
    /\ clock < MaxClock
    /\ clock' = clock + 1000
    /\ UNCHANGED <<appToken, channelToken, issued, outbound, tokenFrame>>

TokenNext ==
    \/ \E api \in {"client", "app"}, readable \in BOOLEAN : Request(api, readable)
    \/ \E n \in 1..MaxCalls, ok \in BOOLEAN, touched \in BOOLEAN :
          RefreshBeforeUseSettles(n, ok, touched)
    \/ \E n \in 1..MaxCalls, statusCode \in ResponseStatuses : Response(n, statusCode)
    \/ \E n \in 1..MaxCalls, ok \in BOOLEAN, touched \in BOOLEAN, readable \in BOOLEAN :
          RefreshSettles(n, ok, touched, readable)
    \/ Later

TokenSpec == TokenInit /\ [][TokenNext]_vars

\* C34: a call that receives 401 starts exactly one token refresh and is
\* retried exactly once; a second 401 ends it with the error and no further
\* refresh or retry; and the retry count of a call changes only when that call
\* itself receives a 401.
C34_OneRefreshOneRetry ==
    /\ [](\A n \in 1..Len(outbound) :
            /\ outbound[n].refreshes <= 1
            /\ outbound[n].retries <= 1
            /\ outbound[n].unauthorized >= 1 => outbound[n].refreshes = 1
            /\ outbound[n].unauthorized >= 2 => outbound[n].status = "rejected")
    /\ [][\A n \in 1..Len(outbound) :
            outbound'[n].retryCount # outbound[n].retryCount
                => outbound'[n].unauthorized = outbound[n].unauthorized + 1]_vars

\* C35: the request interceptor of appApi() finds the app token expired
\* exactly when now > updatedAt + expiresIn, and a request made after it was
\* found expired has waited for the refresh and carries the token that the
\* refresh returned.
C35_ExpiredAppTokenRefreshedBeforeUse ==
    /\ [][/\ Len(outbound') > Len(outbound)
          /\ outbound'[Len(outbound')].api = "app"
          /\ outbound'[Len(outbound')].status # "rejected"
          => (outbound'[Len(outbound')].expired
                <=> clock > appToken.updated_at + (appToken.expires_in * 1000))]_vars
    /\ [](\A n \in 1..Len(outbound) :
            /\ outbound[n].api = "app" /\ outbound[n].expired /\ outbound[n].status = "sent"
                 => outbound[n].refreshed # -1
            /\ outbound[n].api = "app" /\ outbound[n].expired /\ outbound[n].refreshed # -1
                 => outbound[n].bearer = outbound[n].refreshed)
====
